---- MODULE Spec2Model ----
(***************************************************************************)
(* Model of the Caddx NX-584 controller (src/src/caddx_controller.py), its *)
(* entity registries (zone.py, partition.py) and the MQTT sink callbacks   *)
(* (mqtt_client.py).  The controller thread is modelled as a state machine *)
(* whose steps end at the blocking points of control_loop (the serial      *)
(* reads); the sink thread's callbacks interleave with those steps.        *)
(***************************************************************************)
EXTENDS Integers, Sequences, FiniteSets, TLC

(***************************************************************************)
(* Bounds of the model.                                                    *)
(***************************************************************************)
\* number of intents (arm/disarm calls) the sink thread may issue in a run
MaxIntents == 1
\* largest value the history counters tx_count and timeouts keep apart
CounterCap == 5

(***************************************************************************)
(* Configuration of the controller (arguments of CaddxController).         *)
(***************************************************************************)
\* number_zones (--max-zones): the zones 1..number_zones are synchronized
number_zones == 2
ignored_zones == {2}

(***************************************************************************)
(* MessageType                                                             *)
(***************************************************************************)
InterfaceConfigRsp == 1
ZoneNameRsp == 3
ZoneStatusRsp == 4
ZonesSnapshotRsp == 5
PartitionStatusRsp == 6
PartitionSnapshotRsp == 7
SystemStatusRsp == 8
X10MessageInd == 9
LogEventInd == 10
KeypadButtonInd == 11
ProgramDataRsp == 16
UserInfoRsp == 18
Failed == 28
ACK == 29
NACK == 30
Rejected == 31
InterfaceConfigReq == 33
ZoneNameReq == 35
ZoneStatusReq == 36
ZonesSnapshotReq == 37
PartitionStatusReq == 38
PartitionSnapshotReq == 39
SystemStatusReq == 40
X10MessageReq == 41
LogEventReq == 42
KeypadTextMsgReq == 43
KeypadTerminalModeReq == 44
ProgramDataReq == 48
ProgramDataCmd == 49
UserInfoReqPin == 50
UserInfoReqNoPin == 51
SetUserCodePin == 52
SetUserCodeNoPin == 53
SetUserAuthorityPin == 54
SetUserAuthorityNoPin == 55
SetClockCalendar == 59
PrimaryKeypadFuncPin == 60
PrimaryKeypadFuncNoPin == 61
SecondaryKeypadFunc == 62
ZoneBypassToggle == 63

MessageValidLength ==
    (InterfaceConfigRsp :> 11) @@ (ZoneNameRsp :> 18) @@ (ZoneStatusRsp :> 8) @@
    (ZonesSnapshotRsp :> 10) @@ (PartitionStatusRsp :> 9) @@
    (PartitionSnapshotRsp :> 9) @@ (SystemStatusRsp :> 12) @@
    (X10MessageInd :> 4) @@ (LogEventInd :> 10) @@ (KeypadButtonInd :> 3) @@
    (ProgramDataRsp :> 13) @@ (UserInfoRsp :> 17) @@ (Failed :> 1) @@
    (ACK :> 1) @@ (NACK :> 1) @@ (Rejected :> 1) @@
    (InterfaceConfigReq :> 1) @@ (ZoneNameReq :> 2) @@ (ZoneStatusReq :> 2) @@
    (ZonesSnapshotReq :> 2) @@ (PartitionStatusReq :> 2) @@
    (PartitionSnapshotReq :> 1) @@ (SystemStatusReq :> 1) @@
    (X10MessageReq :> 4) @@ (LogEventReq :> 2) @@ (KeypadTextMsgReq :> 12) @@
    (KeypadTerminalModeReq :> 3) @@ (ProgramDataReq :> 4) @@
    (ProgramDataCmd :> 13) @@ (UserInfoReqPin :> 5) @@ (UserInfoReqNoPin :> 2) @@
    (SetUserCodePin :> 8) @@ (SetUserCodeNoPin :> 5) @@
    (SetUserAuthorityPin :> 7) @@ (SetUserAuthorityNoPin :> 4) @@
    (SetClockCalendar :> 7) @@ (PrimaryKeypadFuncPin :> 6) @@
    (PrimaryKeypadFuncNoPin :> 4) @@ (SecondaryKeypadFunc :> 3) @@
    (ZoneBypassToggle :> 2)

\* the members of the MessageType enumeration
MessageType == DOMAIN MessageValidLength

(***************************************************************************)
(* PrimaryKeypadFunctions                                                  *)
(***************************************************************************)
Disarm == 1
ArmAway == 2
ArmStay == 3

(***************************************************************************)
(* Capability flags of the Interface Configuration response.  A mask is    *)
(* modelled as the set of the names of its set bits.                       *)
(***************************************************************************)
TransitionMessageFlags ==
    {"InterfaceConfig", "ZoneStatus", "ZoneSnapshot", "PartitionStatus",
     "PartitionSnapshot", "SystemStatus", "X10Message", "LogEvent",
     "KeypadButton"}

RequestCommandFlags ==
    {"InterfaceConfig", "ZoneName", "ZoneStatus", "ZoneSnapshot",
     "PartitionStatus", "PartitionSnapshot", "SystemStatus", "X10Message",
     "LogEvent", "KeypadTextMessage", "KeypadTerminalMode", "ProgramData",
     "ProgramDataCommand", "UserInfoPin", "UserInfoNoPin", "SetUserCodePin",
     "SetUserCodeNoPin", "SetUserAuthorityPin", "SetUserAuthorityNoPin",
     "SetClockCalendar", "PrimaryKeypadPin", "PrimaryKeypadNoPin",
     "SecondaryKeypad", "ZoneBypassToggle"}

(***************************************************************************)
(* Partition.state: the derived state of a condition bitmap.  A bitmap is  *)
(* the set of the names of its set PartitionConditionFlags; None (no       *)
(* bitmap assigned yet) is the set NoFlags.                                *)
(***************************************************************************)
NoFlags == {"None"}

\* variant: the entry delay is looked at before the exit delay
PartitionState_EntryFirst(condition_flags) ==
    IF condition_flags = NoFlags THEN "None"
    ELSE IF "SirenOn" \in condition_flags \/ "SteadySirenOn" \in condition_flags
         THEN "TRIGGERED"
    ELSE IF "Armed" \in condition_flags
         THEN IF "Entry" \in condition_flags THEN "PENDING"
              ELSE IF "Exit1" \in condition_flags \/ "Exit2" \in condition_flags
              THEN "ARMING"
              ELSE IF "EntryGuard" \in condition_flags THEN "ARMED_HOME"
              ELSE "ARMED_AWAY"
    ELSE IF "ReadyToArm" \in condition_flags \/ "ReadyToForceArm" \in condition_flags
         THEN "DISARMED"
    ELSE "PENDING"
PartitionState(condition_flags) ==
    IF condition_flags = NoFlags THEN "None"
    ELSE IF "SirenOn" \in condition_flags \/ "SteadySirenOn" \in condition_flags
         THEN "TRIGGERED"
    ELSE IF "Armed" \in condition_flags
         THEN IF "Exit1" \in condition_flags \/ "Exit2" \in condition_flags
              THEN "ARMING"
              ELSE IF "Entry" \in condition_flags THEN "PENDING"
              ELSE IF "EntryGuard" \in condition_flags THEN "ARMED_HOME"
              ELSE "ARMED_AWAY"
    ELSE IF "ReadyToArm" \in condition_flags \/ "ReadyToForceArm" \in condition_flags
         THEN "DISARMED"
    ELSE "PENDING"

(***************************************************************************)
(* Index conversions and bit extraction.                                   *)
(***************************************************************************)
get_nth_bit(num, n) == (num \div (2 ^ n)) % 2
panel_zone_to_server(panel_zone) == panel_zone + 1
server_zone_to_panel(server_zone) == (server_zone - 1) % 256
panel_partition_to_server(panel_partition) == panel_partition + 1
server_partition_to_panel(server_partition) == (server_partition - 1) % 256

(***************************************************************************)
(* Inbound frames as returned by _read_message: the type byte tb           *)
(* (message[0], with the ack-requested bit 0x80 and the reserved bit       *)
(* 0x40), the number of bytes len(message), message[1] as b1 (zone index,  *)
(* partition index or panel id) and the decoded payload fields.            *)
(***************************************************************************)
BlankFrame ==
    [tb |-> 0, len |-> 1, b1 |-> 0, name |-> "", partition_mask |-> 0,
     type_mask |-> 0, condition_mask |-> 0, condition_flags |-> {},
     transition_flags |-> {}, request_flags |-> {}]

\* the capability flags _process_interface_config_rsp requires
RequiredTransitionFlags ==
    {"InterfaceConfig", "ZoneStatus", "PartitionStatus", "PartitionSnapshot",
     "SystemStatus"}

RequiredRequestFlags ==
    {"InterfaceConfig", "ZoneName", "ZoneStatus", "ZoneSnapshot",
     "PartitionStatus", "PartitionSnapshot", "SystemStatus",
     "SetClockCalendar", "PrimaryKeypadNoPin"}

\* the same frame with the ack-requested bit, and with the reserved bit
WithAck(f) == [f EXCEPT !.tb = @ + 128]
WithReserved(f) == [f EXCEPT !.tb = @ + 64]

SimpleFrame(t) == [BlankFrame EXCEPT !.tb = t, !.len = MessageValidLength[t]]

InterfaceConfigFrames ==
    LET ok == [SimpleFrame(InterfaceConfigRsp) EXCEPT
                  !.transition_flags = RequiredTransitionFlags,
                  !.request_flags = RequiredRequestFlags]
    IN  {ok,
         [ok EXCEPT !.transition_flags = @ \ {"SystemStatus"}],
         [ok EXCEPT !.request_flags = @ \ {"PrimaryKeypadNoPin"}]}

ZoneNameFrames ==
    {[SimpleFrame(ZoneNameRsp) EXCEPT !.b1 = 0, !.name = "A"],
     [SimpleFrame(ZoneNameRsp) EXCEPT !.b1 = 2, !.name = "A"]}

ZoneStatusFrames ==
    LET one == [SimpleFrame(ZoneStatusRsp) EXCEPT !.partition_mask = 1,
                                                  !.condition_mask = 1]
    IN  {one, [one EXCEPT !.b1 = 1], WithAck(one), WithReserved(one),
         [one EXCEPT !.len = 9]}

PartitionStatusFrames ==
    LET one == [SimpleFrame(PartitionStatusRsp) EXCEPT
                     !.condition_flags = {"Armed"}]
    IN  {one, [one EXCEPT !.condition_flags = {"ReadyToArm"}],
         [one EXCEPT !.b1 = 8], WithAck(one)}

SystemStatusFrames ==
    LET one == [SimpleFrame(SystemStatusRsp) EXCEPT !.b1 = 5, !.partition_mask = 131]
    IN  {one, WithAck(one)}

OtherFrames ==
    {SimpleFrame(Failed), SimpleFrame(NACK), SimpleFrame(Rejected),
     WithAck(SimpleFrame(Rejected)), WithReserved(SimpleFrame(NACK)),
     SimpleFrame(ACK), WithAck(SimpleFrame(LogEventInd)),
     [BlankFrame EXCEPT !.tb = 2 + 128]}

\* the frames the panel may deliver
Frames ==
    InterfaceConfigFrames \cup ZoneNameFrames \cup ZoneStatusFrames
    \cup PartitionStatusFrames \cup SystemStatusFrames \cup OtherFrames

(***************************************************************************)
(* State.                                                                  *)
(***************************************************************************)
VARIABLES
    pc,                 \* position of the controller thread in control_loop
    rc,                 \* control_loop's return code (-1: not returned)
    conn_open,          \* self.conn is open
    queue_created,      \* self._command_queue is not None
    command_queue,      \* self._command_queue: the queued Commands, oldest first
    command,            \* _process_command_queue: the dequeued command
    retries,            \* _process_command_queue: its retry counter
    panel_synced,       \* self.panel_synced
    panel_firmware,     \* self.panel_firmware ("None" until set)
    panel_id,           \* self.panel_id (-1 for None)
    partition_mask,     \* self.partition_mask (-1 for None)
    default_code,       \* self.default_code ("None" or a PIN)
    default_user,       \* self.default_user ("None" or a user number)
    zones_by_index,     \* Zone.zones_by_index
    partition_by_index, \* Partition.partition_by_index
    zones_by_unique_name,     \* Zone.zones_by_unique_name (token to index)
    partition_by_unique_name, \* Partition.partition_by_unique_name
    connected,          \* MQTTClient.connected
    next_id,            \* history: number given to the next enqueued command
    status,             \* history: what became of each enqueued command
    tx_count,           \* history: transmissions of the dequeued command
    timeouts,           \* history: read timeouts met by the dequeued command
    intents,            \* history: intent calls made by the sink thread
    last_intent,        \* last step: the intent call the sink thread made
    actor,              \* last step: the thread that took it
    event,              \* last step: what it did
    last_frame,         \* last step: the frame it read
    handled,            \* last step: frames given to _process_transition_message
    wire,               \* last step: the messages written to the serial link
    published,          \* last step: the messages published on the sink
    tx_bytes,           \* the bytes the last _send_direct wrote to self.conn
    rx_buffer,          \* the bytes waiting in the input buffer of self.conn
    rx_result,          \* what the last _read_message since the last write
                        \* returned and did
    sent                \* history: the arguments of the last _send_direct,
                        \* and whether the bytes it wrote reached the input
                        \* buffer unchanged, or with a single bit flipped

vars ==
    <<pc, rc, conn_open, queue_created, command_queue, command, retries,
      panel_synced, panel_firmware, panel_id, partition_mask, default_code,
      default_user, zones_by_index, partition_by_index, zones_by_unique_name,
      partition_by_unique_name, connected, next_id,
      status, tx_count, timeouts, intents, last_intent, actor, event,
      last_frame, handled, wire, published, tx_bytes, rx_buffer, rx_result,
      sent>>

\* Command(req_msg_type, req_msg_data, response_handler, request_ack); id is
\* the history number of the command (0 until it is enqueued)
Command(req_msg_type, req_msg_data, response_handler, request_ack) ==
    [req_msg_type |-> req_msg_type, req_msg_data |-> req_msg_data,
     response_handler |-> response_handler, request_ack |-> request_ack,
     id |-> 0]

NoCommand == Command(0, <<>>, (0 :> "none"), FALSE)

(***************************************************************************)
(* The part of the state a handler reads and writes, as a record; raised   *)
(* names the exception a handler raised ("" for none).                     *)
(***************************************************************************)
Here ==
    [queue |-> command_queue, next_id |-> next_id, status |-> status,
     zones |-> zones_by_index, partitions |-> partition_by_index,
     zone_names |-> zones_by_unique_name,
     partition_names |-> partition_by_unique_name,
     panel_synced |-> panel_synced, panel_firmware |-> panel_firmware,
     panel_id |-> panel_id, partition_mask |-> partition_mask,
     default_code |-> default_code, default_user |-> default_user,
     handled |-> <<>>, wire |-> <<>>, published |-> <<>>, raised |-> ""]

(***************************************************************************)
(* Serial writes.                                                          *)
(***************************************************************************)
\* _send_direct: id is the history number of the command the message is
\* sent for (0 for a direct ACK)
SendDirect(s, message_type, message_data, request_ack, id) ==
    LET message_length == IF message_data # <<>> THEN 1 + Len(message_data) ELSE 1
        type_byte == IF request_ack /\ (message_type % 256) < 128
                     THEN (message_type + 128) % 256
                     ELSE message_type % 256
    IN  IF message_type \notin MessageType THEN s
        ELSE IF message_length # MessageValidLength[message_type] THEN s
        ELSE [s EXCEPT !.wire = Append(@, [tb |-> type_byte,
                                           len |-> message_length % 256,
                                           data |-> message_data,
                                           id |-> id])]

SendDirectAck(s) == SendDirect(s, ACK, <<>>, FALSE, 0)

(***************************************************************************)
(* Framing: the bytes _send_direct writes for a message and the message    *)
(* _read_message makes of the bytes in the input buffer.                   *)
(***************************************************************************)
StartByte == 126
EscapeByte == 125

\* _calculate_fletcher16
\* variant: the sums are reduced modulo 256
Fletcher16_Mod256(data) ==
    LET RECURSIVE Sums(_, _, _)
        Sums(rest, sum1, sum2) ==
            IF rest = <<>> THEN sum2 * 256 + sum1
            ELSE Sums(Tail(rest), (sum1 + Head(rest)) % 256,
                      (sum2 + ((sum1 + Head(rest)) % 256)) % 256)
    IN  Sums(data, 0, 0)
\* variant: the top bit of every byte is left out of the sums
Fletcher16_SevenBits(data) ==
    LET RECURSIVE Sums(_, _, _)
        Sums(rest, sum1, sum2) ==
            IF rest = <<>> THEN sum2 * 256 + sum1
            ELSE Sums(Tail(rest), (sum1 + (Head(rest) % 128)) % 255,
                      (sum2 + ((sum1 + (Head(rest) % 128)) % 255)) % 255)
    IN  Sums(data, 0, 0)
Fletcher16(data) ==
    LET RECURSIVE Sums(_, _, _)
        Sums(rest, sum1, sum2) ==
            IF rest = <<>> THEN sum2 * 256 + sum1
            ELSE Sums(Tail(rest), (sum1 + Head(rest)) % 255,
                      (sum2 + ((sum1 + Head(rest)) % 255)) % 255)
    IN  Sums(data, 0, 0)

\* the byte stuffing loop of _send_direct
\* variant: only the start byte is escaped
Stuff_StartOnly(message) ==
    LET RECURSIVE Stuffed(_)
        Stuffed(rest) ==
            IF rest = <<>> THEN <<>>
            ELSE (IF Head(rest) = 126 THEN <<125, 94>> ELSE <<Head(rest)>>)
                 \o Stuffed(Tail(rest))
    IN  Stuffed(message)
Stuff(message) ==
    LET RECURSIVE Stuffed(_)
        Stuffed(rest) ==
            IF rest = <<>> THEN <<>>
            ELSE (IF Head(rest) = 126 THEN <<125, 94>>
                  ELSE IF Head(rest) = 125 THEN <<125, 93>>
                  ELSE <<Head(rest)>>)
                 \o Stuffed(Tail(rest))
    IN  Stuffed(message)

\* the bytes _send_direct writes for a message that passed its two checks:
\* length, type byte, payload, checksum (low byte first), stuffed, after the
\* start byte
\* variant: the start byte is put in front before the stuffing
Encode_StartStuffed(written) ==
    LET message == <<written.len, written.tb>> \o written.data
        checksum == Fletcher16(message)
    IN  Stuff(<<StartByte>> \o message \o <<checksum % 256, checksum \div 256>>)
Encode(written) ==
    LET message == <<written.len, written.tb>> \o written.data
        checksum == Fletcher16(message)
    IN  <<StartByte>> \o Stuff(message \o <<checksum % 256, checksum \div 256>>)

\* _read_message returned None
NoMessage == <<-1>>

\* no read has been made, and nothing has been written
NoRead == [message |-> NoMessage, flushed |-> FALSE, error |-> "none"]
NothingSent ==
    [message_type |-> 0, message_data |-> <<>>, request_ack |-> FALSE,
     intact |-> FALSE, bit_flipped |-> FALSE]

\* _read_message on an open connection: the message returned, the error met,
\* whether reset_input_buffer was called, and what is left in the buffer.
\* ReadBody is the loop over range(message_length + 2): rest is what is left
\* in the input buffer and message_data what has been collected; a read from
\* an empty buffer times out and yields no byte, and so does every read that
\* follows it.
ReadMessage(buffer) ==
    LET none(rest, error, flushed) ==
            [message |-> NoMessage, error |-> error, flushed |-> flushed,
             buffer |-> IF flushed THEN <<>> ELSE rest]
        RECURSIVE ReadBody(_, _, _)
        ReadBody(rest, message_data, left) ==
            IF left = 0 \/ rest = <<>>
            THEN [buffer |-> rest, data |-> message_data, escape |-> TRUE]
            ELSE IF Head(rest) # EscapeByte
                 THEN ReadBody(Tail(rest), Append(message_data, Head(rest)),
                               left - 1)
            ELSE IF Len(rest) >= 2 /\ rest[2] = 94
                 THEN ReadBody(Tail(Tail(rest)), Append(message_data, 126),
                               left - 1)
            ELSE IF Len(rest) >= 2 /\ rest[2] = 93
                 THEN ReadBody(Tail(Tail(rest)), Append(message_data, 125),
                               left - 1)
            ELSE [buffer |-> IF Len(rest) >= 2 THEN Tail(Tail(rest)) ELSE <<>>,
                  data |-> message_data, escape |-> FALSE]
    IN  IF buffer = <<>> THEN none(<<>>, "timeout", FALSE)
        ELSE IF Head(buffer) # StartByte THEN none(Tail(buffer), "start", TRUE)
        ELSE IF Len(buffer) < 2 THEN none(<<>>, "no_length", TRUE)
        ELSE LET message_length == buffer[2]
                 body == ReadBody(Tail(Tail(buffer)), <<message_length>>,
                                  message_length + 2)
                 n == Len(body.data)
             IN  IF ~body.escape THEN none(body.buffer, "escape", TRUE)
                 ELSE IF n # message_length + 3
                      THEN none(body.buffer, "length", TRUE)
                 ELSE IF body.data[n - 1] + 256 * body.data[n]
                            # Fletcher16(SubSeq(body.data, 1, n - 2))
                      THEN none(body.buffer, "checksum", FALSE)
                 ELSE [message |-> SubSeq(body.data, 2, n - 2), error |-> "",
                       flushed |-> FALSE, buffer |-> body.buffer]

\* _send_request_to_queue
\* variant: the request is written at once instead of being queued
SendRequestToQueue_Direct(s, c) ==
    SendDirect([s EXCEPT !.next_id = @ + 1,
                         !.status = @ @@ (s.next_id :> "pending")],
               c.req_msg_type, c.req_msg_data, c.request_ack, s.next_id)
\* variant: the command is put at the head of the queue
SendRequestToQueue_Lifo(s, c) ==
    [s EXCEPT !.queue = <<[c EXCEPT !.id = s.next_id]>> \o @,
              !.next_id = @ + 1,
              !.status = @ @@ (s.next_id :> "queued")]
SendRequestToQueue(s, c) ==
    [s EXCEPT !.queue = Append(@, [c EXCEPT !.id = s.next_id]),
              !.next_id = @ + 1,
              !.status = @ @@ (s.next_id :> "queued")]

SendInterfaceConfigurationReq(s) ==
    SendRequestToQueue(s, Command(InterfaceConfigReq, <<>>,
        (InterfaceConfigRsp :> "_process_interface_config_rsp"), FALSE))

SendZoneNameReq(s, zone) ==
    SendRequestToQueue(s, Command(ZoneNameReq, <<server_zone_to_panel(zone)>>,
        (ZoneNameRsp :> "_process_zone_name_rsp"), FALSE))

SendZoneStatusReq(s, zone) ==
    SendRequestToQueue(s, Command(ZoneStatusReq, <<server_zone_to_panel(zone)>>,
        (ZoneStatusRsp :> "_process_zone_status_rsp"), FALSE))

SendPartitionStatusReq(s, partition) ==
    SendRequestToQueue(s, Command(PartitionStatusReq,
        <<server_partition_to_panel(partition)>>,
        (PartitionStatusRsp :> "_process_partition_status_rsp"), FALSE))

SendSystemStatusReq(s) ==
    SendRequestToQueue(s, Command(SystemStatusReq, <<>>,
        (SystemStatusRsp :> "_process_system_status_rsp"), FALSE))

\* variant: the clock is not set when the panel is marked synced
SendSetClockReq_Skipped(s) == s
\* send_set_clock_req: the six payload bytes are those of one fixed instant
SendSetClockReq(s) ==
    SendRequestToQueue(s, Command(SetClockCalendar, <<26, 11, 5, 12, 0, 5>>,
        (ACK :> "_process_ack"), FALSE))

(***************************************************************************)
(* Publishing on the sink (mqtt_client.py).  A published message is its    *)
(* topic kind, the index of the entity and the payload.                    *)
(***************************************************************************)
Publish(s, topic, index, payload) ==
    [s EXCEPT !.published = Append(@, [topic |-> topic, index |-> index,
                                       payload |-> payload])]

Min(S) == CHOOSE x \in S : \A y \in S : x <= y

\* "for x in registry.values(): s = Op(s, x)"; the registry is walked in
\* ascending index order
RECURSIVE ForEach(_, _, _)
ForEach(Op(_, _), s, S) ==
    IF S = {} THEN s ELSE ForEach(Op, Op(s, Min(S)), S \ {Min(S)})

PublishOnline(s) == Publish(s, "availability", 0, <<"online">>)
PublishOffline(s) == Publish(s, "availability", 0, <<"offline">>)

PublishPartitionConfig(s, p) == Publish(s, "partition_config", p, <<>>)
PublishConfigs(s) == ForEach(PublishPartitionConfig, s, DOMAIN s.partitions)

PublishZoneConfig(s, z) == Publish(s, "zone_config", z, <<>>)
PublishZoneConfigs(s) == ForEach(PublishZoneConfig, s, DOMAIN s.zones)

\* Zone.is_bypassed, is_faulted, is_trouble
IsBypassed(zone) == get_nth_bit(zone.condition_mask, 3) = 1
IsFaulted(zone) == get_nth_bit(zone.condition_mask, 0) = 1
IsTrouble(zone) ==
    \/ get_nth_bit(zone.condition_mask, 1) = 1
    \/ get_nth_bit(zone.condition_mask, 2) = 1
    \/ get_nth_bit(zone.condition_mask, 5) = 1
    \/ get_nth_bit(zone.condition_mask, 6) = 1

OnOff(b) == IF b THEN "ON" ELSE "OFF"

PublishZoneState(s, z) ==
    IF ~s.zones[z].is_updated THEN s
    ELSE [Publish(s, "zone_state", z,
                  <<OnOff(IsBypassed(s.zones[z])), OnOff(IsFaulted(s.zones[z])),
                    OnOff(IsTrouble(s.zones[z]))>>)
             EXCEPT !.zones[z].is_updated = FALSE]

PublishZoneStates(s) == ForEach(PublishZoneState, s, DOMAIN s.zones)

\* variant: the state is published whether it is known or not
PublishPartitionState_Always(s, p) ==
    Publish(s, "partition_state", p,
            <<PartitionState(s.partitions[p].condition_flags)>>)
PublishPartitionState(s, p) ==
    LET state == PartitionState(s.partitions[p].condition_flags)
    IN  IF state # "None" THEN Publish(s, "partition_state", p, <<state>>) ELSE s

PublishPartitionStates(s) == ForEach(PublishPartitionState, s, DOMAIN s.partitions)

(***************************************************************************)
(* Response and transition handlers of CaddxController.                    *)
(***************************************************************************)
\* the fourteen checks of _process_interface_config_rsp
\* variant: without the PrimaryKeypadNoPin check
RequiredMessageDisabled_NoKeypadCheck(transition_message_flags, request_command_flags) ==
    \/ RequiredTransitionFlags \ transition_message_flags # {}
    \/ (RequiredRequestFlags \ {"PrimaryKeypadNoPin"}) \ request_command_flags # {}
RequiredMessageDisabled(transition_message_flags, request_command_flags) ==
    \/ "InterfaceConfig" \notin transition_message_flags
    \/ "ZoneStatus" \notin transition_message_flags
    \/ "PartitionStatus" \notin transition_message_flags
    \/ "PartitionSnapshot" \notin transition_message_flags
    \/ "SystemStatus" \notin transition_message_flags
    \/ "InterfaceConfig" \notin request_command_flags
    \/ "ZoneName" \notin request_command_flags
    \/ "ZoneStatus" \notin request_command_flags
    \/ "ZoneSnapshot" \notin request_command_flags
    \/ "PartitionStatus" \notin request_command_flags
    \/ "PartitionSnapshot" \notin request_command_flags
    \/ "SystemStatus" \notin request_command_flags
    \/ "SetClockCalendar" \notin request_command_flags
    \/ "PrimaryKeypadNoPin" \notin request_command_flags

ProcessInterfaceConfigRsp(s, message) ==
    LET s1 == [s EXCEPT !.panel_firmware = "fw"]
    IN  IF RequiredMessageDisabled(message.transition_flags, message.request_flags)
        THEN [s1 EXCEPT !.raised = "ControllerError"]
        ELSE s1

\* the decimal digits of a natural number, most significant first
RECURSIVE Digits(_)
Digits(n) == IF n < 10 THEN <<n>> ELSE Digits(n \div 10) \o <<n % 10>>

\* f"zone_{self.index :03}": the digits padded with zeros to three places
ZoneUniqueName(index) ==
    LET d == Digits(index)
    IN  <<"zone_">> \o [k \in 1..(3 - Len(d)) |-> 0] \o d

\* f"partition_{self.index}"
PartitionUniqueName(index) == <<"partition_">> \o Digits(index)

\* the fields of a new Zone
NewZone(name) ==
    [name |-> name, partition_mask |-> 0, type_mask |-> 0, condition_mask |-> 0,
     is_updated |-> FALSE]

\* Zone(index, name): its two assertions, then the two registrations
CreateZone(s, index, name) ==
    IF index \in DOMAIN s.zones THEN [s EXCEPT !.raised = "AssertionError"]
    ELSE IF ZoneUniqueName(index) \in DOMAIN s.zone_names
         THEN [s EXCEPT !.raised = "AssertionError"]
    ELSE [s EXCEPT !.zones = @ @@ (index :> NewZone(name)),
                   !.zone_names = @ @@ (ZoneUniqueName(index) :> index)]

\* Partition(index): its two assertions, then the two registrations
\* variant: without the assertions, the new object replaces the registered one
CreatePartition_Unchecked(s, index) ==
    [s EXCEPT !.partitions = (index :> [condition_flags |-> NoFlags]) @@ @,
              !.partition_names = (PartitionUniqueName(index) :> index) @@ @]
CreatePartition(s, index) ==
    IF ~(1 <= index /\ index <= 8) THEN [s EXCEPT !.raised = "AssertionError"]
    ELSE IF index \in DOMAIN s.partitions
         THEN [s EXCEPT !.raised = "AssertionError"]
    ELSE [s EXCEPT !.partitions = @ @@ (index :> [condition_flags |-> NoFlags]),
                   !.partition_names = @ @@ (PartitionUniqueName(index) :> index)]

ProcessZoneNameRsp(s, message) ==
    LET zone_index == panel_zone_to_server(message.b1)
    IN  IF message.len # MessageValidLength[ZoneNameRsp] THEN s
        ELSE IF zone_index > number_zones /\ zone_index \notin ignored_zones THEN s
        ELSE IF zone_index \notin DOMAIN s.zones
             THEN CreateZone(s, zone_index, message.name)
        ELSE IF s.panel_synced THEN s
        ELSE [s EXCEPT !.zones[zone_index].name = message.name,
                       !.zones[zone_index].is_updated = TRUE]

\* Zone.set_masks
\* variant: only the condition mask is replaced
SetMasks_ConditionOnly(zone, p_mask, t_mask, c_mask) ==
    [zone EXCEPT !.condition_mask = c_mask, !.is_updated = TRUE]
SetMasks(zone, p_mask, t_mask, c_mask) ==
    [zone EXCEPT !.partition_mask = p_mask, !.type_mask = t_mask,
                 !.condition_mask = c_mask, !.is_updated = TRUE]

ProcessZoneStatusRsp(s, message) ==
    LET zone_index == panel_zone_to_server(message.b1)
    IN  IF message.len # MessageValidLength[ZoneStatusRsp] THEN s
        ELSE IF zone_index > number_zones /\ zone_index \notin ignored_zones THEN s
        ELSE IF zone_index \notin DOMAIN s.zones THEN s
        ELSE LET s1 == [s EXCEPT !.zones[zone_index] =
                            SetMasks(@, message.partition_mask, message.type_mask,
                                     message.condition_mask)]
             IN  IF s1.panel_synced THEN PublishZoneState(s1, zone_index) ELSE s1

ProcessAck(s, message) == s

\* _process_zone_snapshot_rsp is bound to no dispatch table and no transition
\* case; it is never called

\* if not self.panel_synced: (a Partition Status message creates its partition)
\* variant: the partition is created whenever it is not registered
CreatesPartition_WhenUnknown(s, partition_id) == partition_id \notin DOMAIN s.partitions
CreatesPartition(s, partition_id) == ~s.panel_synced

ProcessPartitionStatusRsp(s, message) ==
    LET partition_id == panel_partition_to_server(message.b1)
        assign(t) == [t EXCEPT !.partitions[partition_id].condition_flags =
                                    message.condition_flags]
    IN  IF message.len # MessageValidLength[PartitionStatusRsp] THEN s
        ELSE IF CreatesPartition(s, partition_id)
             THEN LET s1 == CreatePartition(s, partition_id)
                  IN  IF s1.raised # "" THEN s1 ELSE assign(s1)
             ELSE IF partition_id \notin DOMAIN s.partitions THEN s
                  ELSE PublishPartitionState(assign(s), partition_id)

RECURSIVE QueuePartitionRequests(_, _)
QueuePartitionRequests(s, i) ==
    IF i >= 7 THEN s
    ELSE IF get_nth_bit(s.partition_mask, i) = 1
         THEN QueuePartitionRequests(SendPartitionStatusReq(s, i + 1), i + 1)
         ELSE QueuePartitionRequests(s, i + 1)

ProcessSystemStatusRsp(s, message) ==
    IF message.len # MessageValidLength[SystemStatusRsp] THEN s
    ELSE LET s1 == IF s.panel_id = -1
                   THEN [s EXCEPT !.panel_id = message.b1,
                                  !.partition_mask = message.partition_mask]
                   ELSE s
         IN  IF s1.panel_synced THEN s1 ELSE QueuePartitionRequests(s1, 0)

\* if self.panel_synced: (the guard of the dispatch in _process_transition_message)
\* variants: the guard dropped, and the guard inverted
ActOnTransitions_Always(s) == TRUE
ActOnTransitions_Unsynced(s) == ~s.panel_synced
ActOnTransitions(s) == s.panel_synced

\* _process_transition_message
ProcessTransitionMessage(s, received_message) ==
    LET message_type == received_message.tb % 64
        ack_requested == (received_message.tb \div 128) % 2 = 1
        s0 == [s EXCEPT !.handled = Append(@, received_message)]
        s1 == IF ~ActOnTransitions(s0) THEN s0
              ELSE IF message_type = InterfaceConfigRsp
                   THEN ProcessInterfaceConfigRsp(s0, received_message)
              ELSE IF message_type = ZoneStatusRsp
                   THEN ProcessZoneStatusRsp(s0, received_message)
              ELSE IF message_type = PartitionStatusRsp
                   THEN ProcessPartitionStatusRsp(s0, received_message)
              ELSE IF message_type = SystemStatusRsp
                   THEN ProcessSystemStatusRsp(s0, received_message)
              ELSE s0
    IN  IF message_type \notin MessageType THEN s0
        ELSE IF received_message.len # MessageValidLength[message_type] THEN s0
        ELSE IF s1.raised # "" THEN s1
        ELSE IF ack_requested THEN SendDirectAck(s1)
        ELSE s1

\* command.response_handler[incoming_message_type](incoming_message)
CallHandler(s, handler, message) ==
    CASE handler = "_process_interface_config_rsp" -> ProcessInterfaceConfigRsp(s, message)
      [] handler = "_process_zone_name_rsp" -> ProcessZoneNameRsp(s, message)
      [] handler = "_process_zone_status_rsp" -> ProcessZoneStatusRsp(s, message)
      [] handler = "_process_partition_status_rsp" -> ProcessPartitionStatusRsp(s, message)
      [] handler = "_process_system_status_rsp" -> ProcessSystemStatusRsp(s, message)
      [] handler = "_process_ack" -> ProcessAck(s, message)

(***************************************************************************)
(* High-level intents.  A PIN is the sequence of its digits; NoCode and    *)
(* NoUser stand for None.                                                  *)
(***************************************************************************)
NoCode == <<-1>>
NoUser == -1

\* pin_to_bytearray: <<>> stands for the ValueError
PinToByteArray(pin) ==
    IF Len(pin) \notin {4, 6} THEN <<>>
    ELSE [k \in 1..3 |-> IF 2 * k <= Len(pin)
                         THEN (pin[2 * k - 1] * 16 + pin[2 * k]) % 256
                         ELSE 0]

SendPrimaryKeypadFunctionWoPin(s, partition, function) ==
    SendRequestToQueue(s, Command(PrimaryKeypadFuncNoPin,
        <<function, 2 ^ (partition - 1), s.default_user>>,
        (ACK :> "_process_ack"), TRUE))

\* variant: the request is written to the serial link by the caller
SendPrimaryKeypadFunctionWPin_Direct(s, partition, function) ==
    SendDirect(s, PrimaryKeypadFuncPin,
               PinToByteArray(s.default_code) \o <<function, 2 ^ (partition - 1)>>,
               TRUE, s.next_id)
SendPrimaryKeypadFunctionWPin(s, partition, function) ==
    LET pin_array == PinToByteArray(s.default_code)
    IN  IF pin_array = <<>> THEN [s EXCEPT !.raised = "ValueError"]
        ELSE SendRequestToQueue(s, Command(PrimaryKeypadFuncPin,
                 pin_array \o <<function, 2 ^ (partition - 1)>>,
                 (ACK :> "_process_ack"), TRUE))

\* variant: the default user is looked at before the default code
SendPrimaryKeypadFunction_UserFirst(s, partition, function) ==
    IF s.default_user # NoUser THEN SendPrimaryKeypadFunctionWoPin(s, partition, function)
    ELSE IF s.default_code # NoCode
         THEN SendPrimaryKeypadFunctionWPin(s, partition, function)
    ELSE s
SendPrimaryKeypadFunction(s, partition, function) ==
    IF s.default_code # NoCode THEN SendPrimaryKeypadFunctionWPin(s, partition, function)
    ELSE IF s.default_user # NoUser
         THEN SendPrimaryKeypadFunctionWoPin(s, partition, function)
    ELSE s

\* variant: the state of the partition is not looked at
SendDisarm_Unguarded(s, partition) == SendPrimaryKeypadFunction(s, partition, Disarm)
SendDisarm(s, partition) ==
    IF PartitionState(s.partitions[partition].condition_flags) = "DISARMED" THEN s
    ELSE SendPrimaryKeypadFunction(s, partition, Disarm)

\* the already-armed branch of send_arm_home only logs
SendArmHome(s, partition) == SendPrimaryKeypadFunction(s, partition, ArmStay)

\* the already-armed branch of send_arm_away only logs
SendArmAway(s, partition) == SendPrimaryKeypadFunction(s, partition, ArmAway)

(***************************************************************************)
(* _db_sync_start0                                                         *)
(***************************************************************************)
RECURSIVE QueueZoneRequests(_, _)
QueueZoneRequests(s, zone_number) ==
    IF zone_number > number_zones THEN s
    ELSE IF zone_number \notin ignored_zones
         THEN QueueZoneRequests(
                  SendZoneStatusReq(SendZoneNameReq(s, zone_number), zone_number),
                  zone_number + 1)
         ELSE QueueZoneRequests(s, zone_number + 1)

\* variant: the System Status Request is queued before the Interface
\* Configuration Request
DbSyncStart0_StatusFirst(s) ==
    QueueZoneRequests(
        SendInterfaceConfigurationReq(
            SendSystemStatusReq([s EXCEPT !.panel_synced = FALSE])), 1)
DbSyncStart0(s) ==
    QueueZoneRequests(
        SendSystemStatusReq(
            SendInterfaceConfigurationReq([s EXCEPT !.panel_synced = FALSE])), 1)

(***************************************************************************)
(* Initial state: both objects constructed, control_loop not yet called.   *)
(***************************************************************************)
NoFrame == [BlankFrame EXCEPT !.tb = -1]

\* no intent call was made in the step
NoIntent == [command |-> "None", partition |-> 0]

\* the (default_code, default_user) pairs the controller is constructed with:
\* neither (as caddx-server.py constructs it), a user number, or a four-digit
\* code and a user number
Credentials == {<<NoCode, NoUser>>, <<NoCode, 1>>, <<<<1, 2, 3, 4>>, 1>>}

Init ==
    /\ pc = "init"
    /\ rc = -1
    /\ conn_open = TRUE
    /\ queue_created = FALSE
    /\ command_queue = <<>>
    /\ command = NoCommand
    /\ retries = 0
    /\ panel_synced = FALSE
    /\ panel_firmware = "None"
    /\ panel_id = -1
    /\ partition_mask = -1
    /\ \E c \in Credentials : default_code = c[1] /\ default_user = c[2]
    /\ zones_by_index = <<>>
    /\ partition_by_index = <<>>
    /\ zones_by_unique_name = <<>>
    /\ partition_by_unique_name = <<>>
    /\ connected = FALSE
    /\ next_id = 1
    /\ status = <<>>
    /\ tx_count = 0
    /\ timeouts = 0
    /\ intents = 0
    /\ last_intent = NoIntent
    /\ actor = "none"
    /\ event = "init"
    /\ last_frame = NoFrame
    /\ handled = <<>>
    /\ wire = <<>>
    /\ published = <<>>
    /\ tx_bytes = <<>>
    /\ rx_buffer = <<>>
    /\ rx_result = NoRead
    /\ sent = NothingSent

\* the handler state s becomes the next state
Commit(s) ==
    /\ command_queue' = s.queue
    /\ next_id' = s.next_id
    /\ status' = s.status
    /\ zones_by_index' = s.zones
    /\ partition_by_index' = s.partitions
    /\ zones_by_unique_name' = s.zone_names
    /\ partition_by_unique_name' = s.partition_names
    /\ panel_synced' = s.panel_synced
    /\ panel_firmware' = s.panel_firmware
    /\ panel_id' = s.panel_id
    /\ partition_mask' = s.partition_mask
    /\ handled' = s.handled
    /\ wire' = s.wire
    /\ published' = s.published
    /\ UNCHANGED <<default_code, default_user>>
    /\ UNCHANGED <<tx_bytes, rx_buffer, rx_result, sent>>

\* variant: the queued commands are left in the queue
Finally_QueueKept(s) == PublishOffline(s)
\* the finally block of control_loop: publish offline, close the serial link,
\* discard the queued commands, forget the queue
Finally(s) ==
    LET s1 == PublishOffline(s)
        queued == {s1.queue[k].id : k \in 1..Len(s1.queue)}
    IN  [s1 EXCEPT !.queue = <<>>,
                   !.status = [i \in DOMAIN @ |->
                                  IF i \in queued THEN "dropped" ELSE @[i]]]

\* control_loop ends through its finally block with return code code
Terminate(s, code) ==
    /\ Commit(Finally(s))
    /\ pc' = "done"
    /\ rc' = code
    /\ conn_open' = FALSE
    /\ queue_created' = FALSE
    /\ command' = NoCommand
    /\ retries' = 0
    /\ tx_count' = 0
    /\ timeouts' = 0

(***************************************************************************)
(* The controller thread: control_loop.                                    *)
(***************************************************************************)
\* control_loop up to the first read: create the queue, send a direct ACK
ControlLoopStart ==
    /\ pc = "init"
    /\ Commit(SendDirectAck([Here EXCEPT !.queue = <<>>]))
    /\ queue_created' = TRUE
    /\ pc' = "drain"
    /\ actor' = "controller" /\ last_intent' = NoIntent /\ event' = "start" /\ last_frame' = NoFrame
    /\ UNCHANGED <<rc, conn_open, command, retries, connected, tx_count,
                   timeouts, intents>>

\* the drain loop read the leftover frame f and discards it
DrainFrameOf(f) ==
    /\ pc = "drain"
    /\ last_frame' = f
    /\ Commit(Here)
    /\ actor' = "controller" /\ last_intent' = NoIntent /\ event' = "discard"
    /\ UNCHANGED <<pc, rc, conn_open, queue_created, command, retries,
                   connected, tx_count, timeouts, intents>>

DrainFrame == \E f \in Frames : DrainFrameOf(f)

\* the drain loop read nothing: queue the synchronization sequence
DrainDone ==
    /\ pc = "drain"
    /\ Commit(DbSyncStart0(Here))
    /\ pc' = "queue"
    /\ actor' = "controller" /\ last_intent' = NoIntent /\ event' = "sync_start" /\ last_frame' = NoFrame
    /\ UNCHANGED <<rc, conn_open, queue_created, command, retries, connected,
                   tx_count, timeouts, intents>>

(***************************************************************************)
(* _process_command_queue                                                  *)
(***************************************************************************)
\* retries = 3
InitialRetries == 3

\* history counters stop counting at CounterCap
Count(n, k) == IF n + k > CounterCap THEN CounterCap ELSE n + k

\* retries -= 1
\* variants: a timeout costs two retries; the last retry is never spent
RetriesAfterTimeout_Halved(left) == left - 2
RetriesAfterTimeout_Kept(left) == IF left > 1 THEN left - 1 ELSE left
RetriesAfterTimeout(left) == left - 1

\* incoming_message[0] & 0b001111111
PendingTypeByte(f) == f.tb % 128

\* bool(incoming_message[0] & 0b10000000)
IsAcked(f) == (f.tb \div 128) % 2 = 1

\* incoming_message_type in (Rejected, Failed, NACK)
\* variant: Failed is not taken for a refusal
IsRefusal_NoFailed(incoming_message_type) ==
    incoming_message_type \in {Rejected, NACK}
IsRefusal(incoming_message_type) ==
    incoming_message_type \in {Rejected, Failed, NACK}

\* incoming_message_type not in command.response_handler or incoming_message_is_acked
\* variant: the ack bit is not looked at
IsTransition_NoAckTest(c, incoming_message_type, incoming_message_is_acked) ==
    incoming_message_type \notin DOMAIN c.response_handler
IsTransition(c, incoming_message_type, incoming_message_is_acked) ==
    \/ incoming_message_type \notin DOMAIN c.response_handler
    \/ incoming_message_is_acked

\* take the next command and transmit its request
Dequeue ==
    /\ pc = "queue"
    /\ command_queue # <<>>
    /\ LET c == Head(command_queue)
           s == SendDirect([Here EXCEPT !.queue = Tail(@),
                                        !.status[c.id] = "pending"],
                           c.req_msg_type, c.req_msg_data, c.request_ack, c.id)
       IN  /\ Commit(s)
           /\ command' = c
           /\ tx_count' = Len(s.wire)
    /\ retries' = InitialRetries
    /\ timeouts' = 0
    /\ pc' = "await"
    /\ actor' = "controller" /\ last_intent' = NoIntent /\ event' = "dequeue" /\ last_frame' = NoFrame
    /\ UNCHANGED <<rc, conn_open, queue_created, connected, intents>>

\* the read returned None: count the retry and transmit the request again
AwaitTimeout ==
    /\ pc = "await"
    /\ LET s == SendDirect(Here, command.req_msg_type, command.req_msg_data,
                           command.request_ack, command.id)
           left == RetriesAfterTimeout(retries)
       IN  /\ retries' = left
           /\ tx_count' = Count(tx_count, Len(s.wire))
           /\ IF left > 0
              THEN /\ Commit(s)
                   /\ pc' = "await"
                   /\ event' = "timeout"
              ELSE /\ Commit([s EXCEPT !.status[command.id] = "finished"])
                   /\ pc' = "queue"
                   /\ event' = "abandoned"
    /\ timeouts' = Count(timeouts, 1)
    /\ actor' = "controller" /\ last_intent' = NoIntent /\ last_frame' = NoFrame
    /\ UNCHANGED <<rc, conn_open, queue_created, command, connected, intents>>

\* the read returned the frame f while the command is pending
AwaitFrameOf(f) ==
    LET incoming_message_type_byte == PendingTypeByte(f)
        incoming_message_is_acked == IsAcked(f)
    IN  /\ pc = "await"
        /\ last_frame' = f
        /\ actor' = "controller" /\ last_intent' = NoIntent
        /\ UNCHANGED <<connected, intents>>
        /\ IF incoming_message_type_byte \notin MessageType
           THEN /\ Commit(Here)
                /\ event' = "unknown"
                /\ UNCHANGED <<pc, rc, conn_open, queue_created, command,
                               retries, tx_count, timeouts>>
           ELSE IF IsRefusal(incoming_message_type_byte)
           THEN /\ Commit([Here EXCEPT !.status[command.id] = "finished"])
                /\ pc' = "queue"
                /\ event' = "refused"
                /\ UNCHANGED <<rc, conn_open, queue_created, command,
                               retries, tx_count, timeouts>>
           ELSE IF IsTransition(command, incoming_message_type_byte,
                                incoming_message_is_acked)
           THEN LET s == ProcessTransitionMessage(Here, f)
                IN  IF s.raised # ""
                    THEN /\ Terminate([s EXCEPT !.status[command.id] = "aborted"], 1)
                         /\ event' = "raised"
                    ELSE /\ Commit(s)
                         /\ event' = "transition"
                         /\ UNCHANGED <<pc, rc, conn_open, queue_created,
                                        command, retries, tx_count, timeouts>>
           ELSE LET s == CallHandler(Here,
                             command.response_handler[incoming_message_type_byte], f)
                IN  IF s.raised # ""
                    THEN /\ Terminate([s EXCEPT !.status[command.id] = "aborted"], 1)
                         /\ event' = "raised"
                    ELSE /\ Commit([s EXCEPT !.status[command.id] = "finished"])
                         /\ pc' = "queue"
                         /\ event' = "completed"
                         /\ UNCHANGED <<rc, conn_open, queue_created, command,
                                        retries, tx_count, timeouts>>

AwaitFrame == \E f \in Frames : AwaitFrameOf(f)

\* the queue is empty: _process_command_queue returns and control_loop goes on
\* to its sleep; the first time this marks the panel synced
QueueDrained ==
    /\ pc = "queue"
    /\ command_queue = <<>>
    /\ \E due \in BOOLEAN :
        IF ~panel_synced
        THEN /\ Commit(PublishZoneStates(PublishPartitionStates(PublishOnline(
                       PublishZoneConfigs(PublishConfigs(SendSetClockReq(
                           [Here EXCEPT !.panel_synced = TRUE])))))))
             /\ event' = "synced"
        ELSE IF due
        THEN /\ Commit(PublishZoneStates(PublishPartitionStates(Here)))
             /\ event' = "republish"
        ELSE /\ Commit(Here)
             /\ event' = "sleep"
    /\ pc' = "poll"
    /\ command' = NoCommand /\ retries' = 0 /\ tx_count' = 0 /\ timeouts' = 0
    /\ actor' = "controller" /\ last_intent' = NoIntent /\ last_frame' = NoFrame
    /\ UNCHANGED <<rc, conn_open, queue_created, connected, intents>>

\* the non-blocking read of the idle loop found nothing
PollNone ==
    /\ pc = "poll"
    /\ Commit(Here)
    /\ pc' = "queue"
    /\ actor' = "controller" /\ last_intent' = NoIntent /\ event' = "poll_none" /\ last_frame' = NoFrame
    /\ UNCHANGED <<rc, conn_open, queue_created, command, retries, connected,
                   tx_count, timeouts, intents>>

\* the non-blocking read of the idle loop returned the frame f
PollFrameOf(f) ==
    /\ pc = "poll"
    /\ LET s == ProcessTransitionMessage(Here, f)
       IN  /\ last_frame' = f
           /\ IF s.raised # ""
              THEN /\ Terminate(s, 1)
                   /\ event' = "raised"
              ELSE /\ Commit(s)
                   /\ pc' = "queue"
                   /\ event' = "poll_frame"
                   /\ UNCHANGED <<rc, conn_open, queue_created, command,
                                  retries, tx_count, timeouts>>
    /\ actor' = "controller" /\ last_intent' = NoIntent
    /\ UNCHANGED <<connected, intents>>

PollFrame == \E f \in Frames : PollFrameOf(f)

\* a serial read raises SerialException: inside the try block control_loop
\* ends with code 1; in the drain loop the exception leaves control_loop
SerialFailure ==
    /\ pc \in {"drain", "await", "poll"}
    /\ IF pc = "drain"
       THEN /\ Commit(Here)
            /\ pc' = "done"
            /\ UNCHANGED <<rc, conn_open, queue_created, command, retries,
                           tx_count, timeouts>>
       ELSE Terminate(IF pc = "await"
                      THEN [Here EXCEPT !.status[command.id] = "aborted"]
                      ELSE Here, 1)
    /\ actor' = "controller" /\ last_intent' = NoIntent /\ event' = "serial_failure" /\ last_frame' = NoFrame
    /\ UNCHANGED <<connected, intents>>

\* SIGINT/SIGTERM: exit_handler publishes offline and raises SystemExit in the
\* controller thread; inside the try block the finally block runs
Signal ==
    /\ pc \in {"drain", "await", "poll"}
    /\ IF pc = "drain"
       THEN /\ Commit(PublishOffline(Here))
            /\ pc' = "done"
            /\ UNCHANGED <<rc, conn_open, queue_created, command, retries,
                           tx_count, timeouts>>
       ELSE Terminate(PublishOffline(IF pc = "await"
                                     THEN [Here EXCEPT !.status[command.id] = "aborted"]
                                     ELSE Here), 0)
    /\ actor' = "controller" /\ last_intent' = NoIntent /\ event' = "signal" /\ last_frame' = NoFrame
    /\ UNCHANGED <<connected, intents>>

(***************************************************************************)
(* The sink thread: the callbacks of MQTTClient.                           *)
(***************************************************************************)
SinkStep ==
    /\ actor' = "sink" /\ last_frame' = NoFrame
    /\ UNCHANGED <<pc, rc, conn_open, queue_created, command, retries,
                   tx_count, timeouts>>

\* on_connect with rc = 0
OnConnect ==
    /\ connected' = TRUE
    /\ Commit(PublishOffline(Here))
    /\ event' = "on_connect"
    /\ SinkStep
    /\ last_intent' = NoIntent
    /\ UNCHANGED intents

OnDisconnect ==
    /\ connected
    /\ connected' = FALSE
    /\ Commit(Here)
    /\ event' = "on_disconnect"
    /\ SinkStep
    /\ last_intent' = NoIntent
    /\ UNCHANGED intents

\* on_message for <topic_root>/status with payload "online"
OnMessageStatus ==
    /\ connected
    /\ Commit(PublishPartitionStates(PublishOnline(PublishConfigs(Here))))
    /\ event' = "ha_online"
    /\ SinkStep
    /\ last_intent' = NoIntent
    /\ UNCHANGED <<connected, intents>>

\* on_message for a partition's command topic; without a queue
\* (self._command_queue is None) _send_request_to_queue raises in the sink thread
OnMessageCommand ==
    /\ connected
    /\ intents < MaxIntents
    /\ \E partition \in DOMAIN partition_by_index :
       \E c \in {"ARM_AWAY", "ARM_HOME", "DISARM"} :
        LET s == CASE c = "ARM_AWAY" -> SendArmAway(Here, partition)
                   [] c = "ARM_HOME" -> SendArmHome(Here, partition)
                   [] c = "DISARM" -> SendDisarm(Here, partition)
        IN  /\ last_intent' = [command |-> c, partition |-> partition]
            /\ IF s.raised # "" \/ (s.queue # command_queue /\ ~queue_created)
               THEN Commit(Here) /\ event' = "intent_raised"
               ELSE Commit(s) /\ event' = "intent"
    /\ intents' = intents + 1
    /\ SinkStep
    /\ UNCHANGED connected

Next ==
    \/ ControlLoopStart
    \/ DrainFrame
    \/ DrainDone
    \/ Dequeue
    \/ AwaitTimeout
    \/ AwaitFrame
    \/ QueueDrained
    \/ PollNone
    \/ PollFrame
    \/ SerialFailure
    \/ Signal
    \/ OnConnect
    \/ OnDisconnect
    \/ OnMessageStatus
    \/ OnMessageCommand

Spec == Init /\ [][Next]_vars

\* the frames of the runs in which progress is checked: a response to every
\* request of the synchronization, a refusal, frames that are neither, and
\* two responses that name another entity than the one asked for: zone 2
\* and partition 3
LiveFrames ==
    {f \in Frames :
        \/ f.tb \in {InterfaceConfigRsp, ZoneNameRsp, ZoneStatusRsp,
                     PartitionStatusRsp, SystemStatusRsp, ACK, Rejected}
        \/ f.tb \in {2 + 128, LogEventInd + 128, ZoneStatusRsp + 128}}
    \cup {[SimpleFrame(ZoneNameRsp) EXCEPT !.b1 = 1, !.name = "A"],
          [SimpleFrame(PartitionStatusRsp) EXCEPT !.b1 = 2,
                                                  !.condition_flags = {"Armed"}]}

\* the steps of the controller thread over these frames: every read of
\* control_loop returns (a frame, or None after the read timeout) and every
\* sleep ends, so the thread keeps taking steps
ControllerStep ==
    \/ ControlLoopStart
    \/ \E f \in LiveFrames : DrainFrameOf(f)
    \/ DrainDone
    \/ Dequeue
    \/ AwaitTimeout
    \/ \E f \in LiveFrames : AwaitFrameOf(f)
    \/ QueueDrained
    \/ PollNone
    \/ \E f \in LiveFrames : PollFrameOf(f)

LiveNext ==
    \/ ControllerStep
    \/ SerialFailure
    \/ Signal

FairSpec == Init /\ [][LiveNext]_vars /\ WF_vars(ControllerStep)

(***************************************************************************)
(* Partition.state and publish_partition_state on their own: a Partition   *)
(* is constructed, condition bitmaps are assigned to it and its state is   *)
(* published.                                                              *)
(***************************************************************************)
\* the flags Partition.state looks at, and one it does not look at
StateFlags ==
    {"SirenOn", "SteadySirenOn", "Armed", "Exit1", "Exit2", "Entry",
     "EntryGuard", "ReadyToArm", "ReadyToForceArm", "ChimeMode"}

\* the rest of the program does not run
ProgramIdle ==
    UNCHANGED <<pc, rc, conn_open, queue_created, command, retries, connected,
                tx_count, timeouts, intents, last_intent, last_frame>>

\* Partition(1): the object exists and no bitmap is assigned to it
StateInit ==
    /\ pc = "init"
    /\ rc = -1
    /\ conn_open = TRUE
    /\ queue_created = FALSE
    /\ command_queue = <<>>
    /\ command = NoCommand
    /\ retries = 0
    /\ panel_synced = FALSE
    /\ panel_firmware = "None"
    /\ panel_id = -1
    /\ partition_mask = -1
    /\ default_code = NoCode
    /\ default_user = NoUser
    /\ zones_by_index = <<>>
    /\ zones_by_unique_name = <<>>
    /\ partition_by_index = (1 :> [condition_flags |-> NoFlags])
    /\ partition_by_unique_name = (PartitionUniqueName(1) :> 1)
    /\ connected = FALSE
    /\ next_id = 1
    /\ status = <<>>
    /\ tx_count = 0
    /\ timeouts = 0
    /\ intents = 0
    /\ last_intent = NoIntent
    /\ actor = "none"
    /\ event = "init"
    /\ last_frame = NoFrame
    /\ handled = <<>>
    /\ wire = <<>>
    /\ published = <<>>
    /\ tx_bytes = <<>>
    /\ rx_buffer = <<>>
    /\ rx_result = NoRead
    /\ sent = NothingSent

\* partition.condition_flags = ... with a bitmap
AssignFlags ==
    /\ \E flags \in SUBSET StateFlags :
         Commit([Here EXCEPT !.partitions[1].condition_flags = flags])
    /\ actor' = "controller"
    /\ event' = "assign_flags"
    /\ ProgramIdle

\* publish_partition_state(partition)
PublishState ==
    /\ Commit(PublishPartitionState(Here, 1))
    /\ actor' = "controller"
    /\ event' = "publish_state"
    /\ ProgramIdle

StateNext ==
    \/ AssignFlags
    \/ PublishState

StateSpec == StateInit /\ [][StateNext]_vars

(***************************************************************************)
(* _send_direct and _read_message on their own: a message is written, its  *)
(* bytes reach the input buffer unchanged or damaged, and are read.        *)
(***************************************************************************)
\* the controller and the entities are left alone
ProgramStill ==
    /\ ProgramIdle
    /\ UNCHANGED <<command_queue, next_id, status, zones_by_index,
                   partition_by_index, zones_by_unique_name,
                   partition_by_unique_name, panel_synced, panel_firmware,
                   panel_id, partition_mask, default_code, default_user,
                   handled, published>>

\* _send_direct(message_type, message_data, request_ack): the types written
\* are two without payload, types with one, two and three payload bytes, and
\* 2, which is no member of MessageType; the payload bytes are the two
\* special bytes, the two bytes that follow an escape, and two other bytes
Write ==
    /\ rx_buffer = <<>>
    /\ \E message_type \in {ACK, InterfaceConfigReq, ZoneStatusReq,
                             SecondaryKeypadFunc, PrimaryKeypadFuncNoPin, 2},
          request_ack \in BOOLEAN :
       \E message_data \in [1..(IF message_type \in MessageType
                                  THEN MessageValidLength[message_type] - 1
                                  ELSE 0) -> {1, 65, 93, 94, 125, 126}] :
         LET s == SendDirect(Here, message_type, message_data, request_ack, 0)
         IN  /\ wire' = s.wire
             /\ tx_bytes' = IF s.wire = <<>> THEN <<>> ELSE Encode(s.wire[1])
             /\ sent' = [message_type |-> message_type,
                         message_data |-> message_data,
                         request_ack |-> request_ack, intact |-> FALSE,
                         bit_flipped |-> FALSE]
    /\ actor' = "controller"
    /\ event' = "write"
    /\ rx_result' = NoRead
    /\ UNCHANGED rx_buffer
    /\ ProgramStill

\* the bytes written arrive in the input buffer: unchanged, with one bit
\* of one byte flipped, with one position replaced by 0x00, 0x7D or 0x7E, or
\* cut short
Deliver ==
    /\ tx_bytes # <<>>
    /\ rx_buffer = <<>>
    /\ LET flipped ==
               {[tx_bytes EXCEPT ![k] =
                    IF get_nth_bit(@, n) = 1 THEN @ - 2 ^ n ELSE @ + 2 ^ n] :
                  k \in 1..Len(tx_bytes), n \in 0..7}
       IN  \E bytes \in {tx_bytes} \cup flipped
                         \cup {[tx_bytes EXCEPT ![k] = x] :
                                  k \in 1..Len(tx_bytes), x \in {0, 125, 126}}
                         \cup {SubSeq(tx_bytes, 1, k) :
                                  k \in 1..(Len(tx_bytes) - 1)} :
             /\ rx_buffer' = bytes
             /\ sent' = [sent EXCEPT !.intact = (bytes = tx_bytes),
                                     !.bit_flipped = (bytes \in flipped)]
    /\ tx_bytes' = <<>>
    /\ actor' = "line"
    /\ event' = "deliver"
    /\ UNCHANGED <<rx_result, wire>>
    /\ ProgramStill

\* _read_message()
Read ==
    /\ tx_bytes = <<>>
    /\ LET r == ReadMessage(rx_buffer)
       IN  /\ rx_result' = [message |-> r.message, flushed |-> r.flushed,
                            error |-> r.error]
           /\ rx_buffer' = r.buffer
    /\ actor' = "controller"
    /\ event' = "read"
    /\ UNCHANGED <<tx_bytes, sent, wire>>
    /\ ProgramStill

CodecNext ==
    \/ Write
    \/ Deliver
    \/ Read

\* no default code and no default user are configured
CodecInit ==
    /\ Init
    /\ default_code = NoCode
    /\ default_user = NoUser

CodecSpec == CodecInit /\ [][CodecNext]_vars

(***************************************************************************)
(* The pending loop of _process_command_queue over the bytes of the serial *)
(* line: the synchronization is queued, a request is transmitted, bytes    *)
(* arrive, _read_message reads them and the loop acts on what it returned. *)
(***************************************************************************)
\* the panel's bytes arrive in the empty input buffer: ACK, Rejected, a
\* message of the uncatalogued type 2 and a Keypad Button message with the
\* two special bytes, the last two with the ack bit; as sent, with one
\* position replaced by 0x00 or 0x7D, or cut short
Arrive ==
    /\ pc = "await"
    /\ event # "read"
    /\ rx_buffer = <<>>
    /\ \E m \in {<<ACK>>, <<Rejected>>, <<2 + 128>>,
                 <<KeypadButtonInd + 128, 125, 126>>} :
         LET bytes == Encode([len |-> Len(m), tb |-> m[1], data |-> Tail(m)])
         IN  \E arrived \in {bytes}
                            \cup {[bytes EXCEPT ![k] = x] :
                                     k \in 1..Len(bytes), x \in {0, 125}}
                            \cup {SubSeq(bytes, 1, k) :
                                     k \in 1..(Len(bytes) - 1)} :
                rx_buffer' = arrived
    /\ actor' = "line"
    /\ event' = "arrive"
    /\ UNCHANGED <<tx_bytes, rx_result, sent, wire>>
    /\ ProgramStill

\* incoming_message = self._read_message(wait=True)
AwaitRead ==
    /\ pc = "await"
    /\ event # "read"
    /\ Read

\* the rest of the iteration: None counts as a timeout; a message is looked
\* at by its type byte message[0], its length and message[1]
\* variant: a read that failed on a framing error is not counted
AwaitOutcome_ErrorsSkipped ==
    /\ pc = "await"
    /\ event = "read"
    /\ IF rx_result.message = NoMessage /\ rx_result.error = "timeout"
       THEN AwaitTimeout
       ELSE IF rx_result.message = NoMessage
       THEN /\ Commit(Here)
            /\ actor' = "controller" /\ event' = "skipped"
            /\ UNCHANGED <<pc, rc, conn_open, queue_created, command, retries,
                           connected, tx_count, timeouts, intents, last_intent,
                           last_frame>>
       ELSE AwaitFrameOf([BlankFrame EXCEPT
                             !.tb = rx_result.message[1],
                             !.len = Len(rx_result.message),
                             !.b1 = IF Len(rx_result.message) > 1
                                    THEN rx_result.message[2] ELSE 0])
AwaitOutcome ==
    /\ pc = "await"
    /\ event = "read"
    /\ IF rx_result.message = NoMessage
       THEN AwaitTimeout
       ELSE AwaitFrameOf([BlankFrame EXCEPT
                             !.tb = rx_result.message[1],
                             !.len = Len(rx_result.message),
                             !.b1 = IF Len(rx_result.message) > 1
                                    THEN rx_result.message[2] ELSE 0])

PendingNext ==
    \/ ControlLoopStart
    \/ DrainDone
    \/ Dequeue
    \/ Arrive
    \/ AwaitRead
    \/ AwaitOutcome

PendingSpec == CodecInit /\ [][PendingNext]_vars

(***************************************************************************)
(* The claims.                                                             *)
(***************************************************************************)
\* the last step was taken by the controller thread waiting on a pending
\* command and read a frame
ReadWhilePending == pc = "await" /\ actor' = "controller" /\ last_frame' # NoFrame

\* the requests (not the direct ACKs) among the messages the last step wrote
RequestsWritten == {wire[k].id : k \in 1..Len(wire)} \ {0}

\* what the handlers keep of the panel
PanelData ==
    <<zones_by_index, partition_by_index, panel_firmware, panel_id, partition_mask>>

\* C1: at most one command is outstanding: no two commands are pending at
\* once, and a step that writes a command's request finds every other
\* command still queued, or already completed, refused or abandoned.
C1_OneOutstanding ==
    /\ Cardinality({i \in DOMAIN status : status[i] = "pending"}) <= 1
    /\ \A j \in RequestsWritten :
         \A i \in DOMAIN status \ {j} : status[i] # "pending"

C1_Witness ==
    /\ event = "dequeue"
    /\ command.id \in RequestsWritten
    /\ \E i \in DOMAIN status : i < command.id /\ status[i] = "finished"
    /\ command_queue # <<>>

\* C2: commands are dispatched and finished in the order they were enqueued
\* (the order of their history numbers): once a command has been transmitted,
\* every command enqueued before it has been completed, refused or abandoned;
\* this covers the commands enqueued by response handlers and by the sink
\* thread while the queue is being processed.
C2_FifoOrder ==
    /\ \A i, j \in DOMAIN status :
         (i < j /\ status[j] \in {"pending", "finished", "aborted"})
             => status[i] = "finished"
    /\ \A j \in RequestsWritten : \A i \in 1..(j - 1) : status[i] = "finished"

C2_Witness ==
    /\ event = "dequeue"
    /\ command.req_msg_type = PrimaryKeypadFuncPin
    /\ command.id \in RequestsWritten
    /\ \A i \in 1..(command.id - 1) : status[i] = "finished"

\* C3: a command completed by a response after k read timeouts, k in 0..2,
\* has been transmitted k + 1 times and its retry counter ends at 3 - k.
C3_RetriesOnCompletion ==
    event = "completed" =>
        /\ timeouts \in 0..2
        /\ tx_count = timeouts + 1
        /\ retries = 3 - timeouts

C3_Witness ==
    event = "completed" /\ timeouts = 2 /\ tx_count = 3 /\ retries = 1

\* C4: after a read timeout the request is sent again only if the retry
\* counter is still above zero after the decrement, so a command that meets
\* only timeouts is transmitted three times in total.
C4_ThreeTransmissions ==
    /\ event \in {"timeout", "abandoned"} => (RequestsWritten # {} <=> retries > 0)
    /\ event = "abandoned" => tx_count = 3

\* C5: a Rejected, Failed or NACK frame read while a command is pending
\* abandons the command: nothing is written to the serial link, no handler
\* runs (the panel data and the queue are as before), and the queue processor
\* goes on to the next queued command.
C5_RefusalAbandons ==
    [][(ReadWhilePending /\ last_frame'.tb % 128 \in {28, 30, 31}) =>
         /\ event' = "refused"
         /\ status'[command.id] = "finished"
         /\ wire' = <<>> /\ handled' = <<>> /\ published' = <<>>
         /\ UNCHANGED PanelData
         /\ command_queue' = command_queue
         /\ pc' = "queue"]_vars

C5_Witness ==
    /\ event = "refused"
    /\ last_frame.tb = Failed
    /\ pc = "queue"
    /\ command_queue # <<>>

\* the direct ACK as it is written to the serial link
AckWritten == [tb |-> ACK, len |-> 1, data |-> <<>>, id |-> 0]

\* the frame's type byte without its ack bit is a catalogued type that is
\* none of Rejected, Failed and NACK
CataloguedNoRefusal(f) ==
    f.tb % 128 \in MessageType /\ f.tb % 128 \notin {28, 30, 31}

PartitionFrameDuringZoneRequest ==
    /\ ReadWhilePending
    /\ command.req_msg_type = ZoneStatusReq
    /\ last_frame'.tb % 128 = PartitionStatusRsp
    /\ last_frame'.len = MessageValidLength[PartitionStatusRsp]
    /\ last_frame'.b1 \in 0..7

\* C7 as stated: a Partition Status frame read while a Zone Status Request is
\* pending runs the partition handler, so the partition holds the frame's
\* condition flags, and the zone command is still pending.
C7_AsStated ==
    [][PartitionFrameDuringZoneRequest =>
         /\ last_frame'.b1 + 1 \in DOMAIN partition_by_index'
         /\ partition_by_index'[last_frame'.b1 + 1].condition_flags
                = last_frame'.condition_flags
         /\ pc' = "await"]_vars

\* C7: a Zone Status Request is pending only before the panel is synced; a
\* Partition Status frame read meanwhile is handed to the transition handler
\* and suppressed: no partition is created or changed, nothing is published,
\* it is ACKed exactly if it asks for it, the retry counter and the pending
\* command are as before, and a Zone Status response read next completes the
\* zone command.
C7_PartitionFrameSuppressed ==
    [][/\ PartitionFrameDuringZoneRequest =>
            /\ ~panel_synced /\ ~panel_synced'
            /\ handled' = <<last_frame'>>
            /\ UNCHANGED PanelData
            /\ published' = <<>>
            /\ wire' = IF last_frame'.tb >= 128 THEN <<AckWritten>> ELSE <<>>
            /\ retries' = retries
            /\ pc' = "await" /\ command' = command
       /\ (/\ ReadWhilePending
           /\ command.req_msg_type = ZoneStatusReq
           /\ event = "transition"
           /\ last_frame.tb % 128 = PartitionStatusRsp
           /\ last_frame'.tb = ZoneStatusRsp) =>
            /\ event' = "completed"
            /\ status'[command.id] = "finished"]_vars

C7_Witness ==
    /\ event = "transition"
    /\ pc = "await"
    /\ command.req_msg_type = ZoneStatusReq
    /\ last_frame.tb = PartitionStatusRsp + 128
    /\ handled = <<last_frame>>
    /\ wire = <<AckWritten>>
    /\ partition_by_index = <<>>

\* the frame passes the type and length validation of the transition handler
Dispatchable(f) ==
    /\ f.tb % 64 \in MessageType
    /\ f.len = MessageValidLength[f.tb % 64]

\* C8: while panel_synced is false, a frame dispatched as a transition (one
\* that passes the handler's type and length validation) changes no zone, no
\* partition and no panel field, queues nothing and publishes nothing, and
\* the step writes a direct ACK exactly if the frame's ack bit is set.
C8_UnsyncedTransitionIgnored ==
    [][(/\ ~panel_synced
        /\ actor' = "controller"
        /\ handled' # <<>>
        /\ Dispatchable(handled'[1])) =>
         /\ handled' = <<last_frame'>>
         /\ UNCHANGED PanelData
         /\ command_queue' = command_queue
         /\ published' = <<>>
         /\ ~panel_synced'
         /\ wire' = IF last_frame'.tb >= 128 THEN <<AckWritten>> ELSE <<>>]_vars

C8_Witness ==
    /\ ~panel_synced
    /\ event = "transition"
    /\ last_frame.tb = ZoneStatusRsp + 128
    /\ handled = <<last_frame>>
    /\ wire = <<AckWritten>>
    /\ zones_by_index # <<>>

\* C10: when the Interface Configuration response of the synchronization
\* lacks a required flag, the run ends at once: no request is written, the
\* queued commands are dropped, availability offline is published, the serial
\* link is closed and control_loop returns 1 with panel_synced false; after
\* control_loop has returned the controller thread takes no step, so it
\* writes no request, never sets panel_synced and never publishes online.
C10_CapabilityAbort ==
    [][/\ (/\ ReadWhilePending
           /\ ~panel_synced
           /\ command.req_msg_type = InterfaceConfigReq
           /\ last_frame'.tb = InterfaceConfigRsp
           /\ \/ ~(RequiredTransitionFlags \subseteq last_frame'.transition_flags)
              \/ ~(RequiredRequestFlags \subseteq last_frame'.request_flags)) =>
            /\ event' = "raised"
            /\ wire' = <<>>
            /\ command_queue' = <<>>
            /\ \A i \in DOMAIN status' : status'[i] \in {"aborted", "dropped"}
            /\ published' = <<[topic |-> "availability", index |-> 0,
                               payload |-> <<"offline">>]>>
            /\ ~conn_open' /\ ~queue_created'
            /\ pc' = "done" /\ rc' = 1
            /\ ~panel_synced'
       /\ pc = "done" =>
            /\ actor' = "sink"
            /\ wire' = <<>>
            /\ UNCHANGED <<pc, rc, panel_synced, conn_open, command_queue>>]_vars

C10_Witness ==
    /\ event = "raised"
    /\ last_frame.tb = InterfaceConfigRsp
    /\ "PrimaryKeypadNoPin" \notin last_frame.request_flags
    /\ ~panel_synced
    /\ pc = "done" /\ rc = 1
    /\ ~conn_open
    /\ command_queue = <<>>
    /\ \E i \in DOMAIN status : status[i] = "dropped"

\* C9 as stated: whatever frames arrive, every command taken from the queue
\* eventually leaves the pending state and the queue processor eventually
\* returns.
C9_AsStated ==
    /\ (pc = "await") ~> (pc # "await")
    /\ (pc \in {"queue", "await"}) ~> (pc \in {"poll", "done"})

\* C9: frames neither consume nor restore the retries, so read timeouts
\* alone bound the wait: a command is pending only while it has met fewer
\* than three read timeouts, whatever frames arrived in between, and after its
\* third read timeout it is abandoned; a command kept from timing out by a
\* steady stream of frames that are neither its response nor a refusal stays
\* pending.
C9_ThirdTimeoutEndsTheWait ==
    /\ pc = "await" =>
         /\ timeouts < 3
         /\ retries = 3 - timeouts
         /\ status[command.id] = "pending"
    /\ timeouts >= 3 =>
         /\ pc # "await"
         /\ status[command.id] = "finished"

C9_Witness ==
    /\ pc = "await"
    /\ event \in {"transition", "unknown"}
    /\ timeouts = 2
    /\ retries = 1
    /\ status[command.id] = "pending"

\* the availability message publish_online and publish_offline send
Availability(payload) == [topic |-> "availability", index |-> 0, payload |-> <<payload>>]

\* C11: availability online is published only while panel_synced is true,
\* whichever thread publishes it: no step of the controller loop and no
\* callback of the sink publishes online while panel_synced is false.
C11_OnlineOnlyWhenSynced ==
    \A k \in 1..Len(published) :
        published[k] = Availability("online") => panel_synced

\* C12: once control_loop has been entered and has ended, whether by a signal,
\* by a fatal exception in the main loop or by a failure before the main loop
\* (in the drain of leftover frames), availability offline was published by
\* the step that ended it, the serial link is closed and no command is left
\* queued.
C12_CleanupOnEveryExit ==
    (pc = "done" /\ actor = "controller") =>
        /\ \E k \in 1..Len(published) : published[k] = Availability("offline")
        /\ ~conn_open
        /\ command_queue = <<>>
        /\ \A i \in DOMAIN status : status[i] # "queued"

\* the derived state of the partition the intent call of the step names
IntentPartitionState ==
    PartitionState(partition_by_index[last_intent'.partition].condition_flags)

\* C13: send_arm_home and send_arm_away on a partition whose derived state is
\* ARMED_HOME, ARMED_AWAY or ARMING enqueue no request: the command queue is
\* left unchanged.
C13_ArmedNotRearmed ==
    [][(/\ last_intent'.command \in {"ARM_HOME", "ARM_AWAY"}
        /\ IntentPartitionState \in {"ARMED_HOME", "ARMED_AWAY", "ARMING"}) =>
            /\ command_queue' = command_queue
            /\ next_id' = next_id]_vars

\* C14: send_disarm on a partition whose derived state is DISARMED enqueues
\* nothing: the command queue is left unchanged and nothing is written.
C14_DisarmedNotDisarmed ==
    [][(/\ last_intent'.command = "DISARM"
        /\ IntentPartitionState = "DISARMED") =>
            /\ command_queue' = command_queue
            /\ next_id' = next_id
            /\ status' = status
            /\ wire' = <<>>]_vars

C14_Witness ==
    /\ event = "intent"
    /\ last_intent.command = "DISARM"
    /\ PartitionState(partition_by_index[last_intent.partition].condition_flags)
           = "DISARMED"
    /\ default_code # NoCode
    /\ queue_created
    /\ pc = "poll"

\* the function code of an intent
IntentFunction(c) ==
    CASE c = "ARM_AWAY" -> ArmAway [] c = "ARM_HOME" -> ArmStay [] c = "DISARM" -> Disarm

\* the intent call of the step passes the validation of the partition's state
\* and the controller is running
IntentAccepted ==
    /\ last_intent' # NoIntent
    /\ queue_created
    /\ last_intent'.command = "DISARM" => IntentPartitionState # "DISARMED"
    /\ last_intent'.command \in {"ARM_HOME", "ARM_AWAY"} =>
           IntentPartitionState \notin {"ARMED_HOME", "ARMED_AWAY", "ARMING"}

\* C15: an accepted arm or disarm intent appends exactly one command to the
\* queue: with a default code, the with-PIN request (the packed code, the
\* function, the partition bit), also when a default user is configured;
\* without a code but with a default user, the without-PIN request carrying
\* the user number; with neither, nothing.
C15_OneCommandPerIntent ==
    [][IntentAccepted =>
        LET n == Len(command_queue)
            new == command_queue'[n + 1]
            function == IntentFunction(last_intent'.command)
            mask == 2 ^ (last_intent'.partition - 1)
        IN  IF default_code # NoCode
            THEN /\ Len(command_queue') = n + 1
                 /\ SubSeq(command_queue', 1, n) = command_queue
                 /\ new.req_msg_type = PrimaryKeypadFuncPin
                 /\ new.req_msg_data = <<18, 52, 0, function, mask>>
            ELSE IF default_user # NoUser
            THEN /\ Len(command_queue') = n + 1
                 /\ SubSeq(command_queue', 1, n) = command_queue
                 /\ new.req_msg_type = PrimaryKeypadFuncNoPin
                 /\ new.req_msg_data = <<function, mask, default_user>>
            ELSE command_queue' = command_queue]_vars

C15_Witness ==
    /\ event = "intent"
    /\ last_intent.command = "ARM_HOME"
    /\ default_code # NoCode /\ default_user # NoUser
    /\ command_queue # <<>>
    /\ command_queue[Len(command_queue)].id = next_id - 1
    /\ command_queue[Len(command_queue)].req_msg_type = PrimaryKeypadFuncPin

\* C16: an intent call of the sink thread only appends to the command queue:
\* the step reads and writes nothing on the serial link and leaves the queue
\* processor where it is; a Primary Keypad Function request is written only by
\* the controller thread, for the command the queue processor has taken, while
\* no other command is pending.
C16_IntentsOnlyEnqueue ==
    [][/\ last_intent' # NoIntent =>
            /\ actor' = "sink"
            /\ wire' = <<>>
            /\ last_frame' = NoFrame
            /\ UNCHANGED <<pc, command, retries, conn_open>>
            /\ Len(command_queue') \in {Len(command_queue), Len(command_queue) + 1}
            /\ SubSeq(command_queue', 1, Len(command_queue)) = command_queue
       /\ \A k \in 1..Len(wire') :
            wire'[k].tb % 128 \in {PrimaryKeypadFuncPin, PrimaryKeypadFuncNoPin} =>
                /\ actor' = "controller"
                /\ event' \in {"dequeue", "timeout", "abandoned"}
                /\ wire'[k].id = command'.id
                /\ \A i \in DOMAIN status' \ {command'.id} : status'[i] # "pending"]_vars

C16_Witness ==
    /\ event = "intent"
    /\ pc = "await"
    /\ status[command.id] = "pending"
    /\ command_queue # <<>>
    /\ command_queue[Len(command_queue)].req_msg_type = PrimaryKeypadFuncPin
    /\ wire = <<>>

\* the requests of the synchronization sequence for the zones from
\* zone_number on: for each zone not ignored, its name then its status
RECURSIVE ZoneRequestsFrom(_)
ZoneRequestsFrom(zone_number) ==
    IF zone_number > number_zones THEN <<>>
    ELSE (IF zone_number \in ignored_zones THEN <<>>
          ELSE << <<ZoneNameReq, <<zone_number - 1>> >>,
                  <<ZoneStatusReq, <<zone_number - 1>> >> >>)
         \o ZoneRequestsFrom(zone_number + 1)

\* the synchronization sequence: request type and payload, in order
SyncSequence ==
    << <<InterfaceConfigReq, <<>> >>, <<SystemStatusReq, <<>> >> >>
    \o ZoneRequestsFrom(1)

QueuedPartitionRequests(index) ==
    Cardinality({k \in 1..Len(command_queue) :
                    /\ command_queue[k].req_msg_type = PartitionStatusReq
                    /\ command_queue[k].req_msg_data = <<index - 1>>})

\* C18: after the System Status response has been handled during
\* synchronization, exactly one Partition Status Request is queued for
\* partition i+1 for every bit i in 0..7 set in the partition mask, and none
\* for a clear bit.
C18_OneRequestPerMaskBit ==
    (/\ event = "completed"
     /\ command.req_msg_type = SystemStatusReq
     /\ ~panel_synced) =>
        /\ partition_mask = last_frame.partition_mask
        /\ \A i \in 0..7 :
             QueuedPartitionRequests(i + 1) =
                 IF get_nth_bit(partition_mask, i) = 1 THEN 1 ELSE 0

\* the entities registered: the indices of the zones and of the partitions,
\* and the token registries
Membership ==
    <<DOMAIN zones_by_index, zones_by_unique_name,
      DOMAIN partition_by_index, partition_by_unique_name>>

\* the two registries of each kind hold the same entities: every index has
\* its token registered for it and every token belongs to a registered index
RegistriesAgree ==
    /\ \A i \in DOMAIN zones_by_index :
         /\ ZoneUniqueName(i) \in DOMAIN zones_by_unique_name
         /\ zones_by_unique_name[ZoneUniqueName(i)] = i
    /\ \A t \in DOMAIN zones_by_unique_name :
         /\ zones_by_unique_name[t] \in DOMAIN zones_by_index
         /\ ZoneUniqueName(zones_by_unique_name[t]) = t
    /\ \A i \in DOMAIN partition_by_index :
         /\ PartitionUniqueName(i) \in DOMAIN partition_by_unique_name
         /\ partition_by_unique_name[PartitionUniqueName(i)] = i
    /\ \A t \in DOMAIN partition_by_unique_name :
         /\ partition_by_unique_name[t] \in DOMAIN partition_by_index
         /\ PartitionUniqueName(partition_by_unique_name[t]) = t

\* no two registered indices share a token
TokensDistinct ==
    /\ \A i, j \in DOMAIN zones_by_index :
         ZoneUniqueName(i) = ZoneUniqueName(j) => i = j
    /\ \A i, j \in DOMAIN partition_by_index :
         PartitionUniqueName(i) = PartitionUniqueName(j) => i = j

\* the step handles, during synchronization, a Partition Status response for
\* a partition that is already registered
DuplicatePartitionResponse ==
    /\ ReadWhilePending
    /\ ~panel_synced
    /\ PartitionStatusRsp \in DOMAIN command.response_handler
    /\ last_frame'.tb = PartitionStatusRsp
    /\ last_frame'.len = MessageValidLength[PartitionStatusRsp]
    /\ panel_partition_to_server(last_frame'.b1) \in DOMAIN partition_by_index

\* C19: the registries start empty and every step that changes one of them
\* leaves the index and token registries of the zones and of the partitions
\* holding the same entities, one token per index and one index per token, so
\* no reachable state has two entries with the same index or the same token;
\* creating a partition whose index is already registered is rejected (the
\* constructor raises) and leaves the four registries unchanged.
C19_UniqueEntries ==
    [][/\ Membership' # Membership => (RegistriesAgree' /\ TokensDistinct')
       /\ DuplicatePartitionResponse =>
            /\ event' = "raised"
            /\ UNCHANGED <<zones_by_index, zones_by_unique_name,
                           partition_by_index, partition_by_unique_name>>]_vars

C19_Witness ==
    /\ event = "raised"
    /\ last_frame.tb = PartitionStatusRsp
    /\ panel_partition_to_server(last_frame.b1) \in DOMAIN partition_by_index
    /\ DOMAIN partition_by_unique_name = {PartitionUniqueName(1)}
    /\ zones_by_index # <<>>
    /\ DOMAIN zones_by_unique_name = {ZoneUniqueName(1)}

\* C20: once panel_synced is true it stays true and the sets of zone and
\* partition indices (and tokens) in the registries never change, whatever
\* frames arrive: a step changes the membership of a registry only while
\* panel_synced is false, and only by handling the response to a pending
\* request of the synchronization.
C20_MembershipFixedAfterSync ==
    [][/\ panel_synced => (panel_synced' /\ Membership' = Membership)
       /\ Membership' # Membership =>
            /\ ~panel_synced /\ ~panel_synced'
            /\ ReadWhilePending
            /\ event' = "completed"
            /\ last_frame'.tb \in {ZoneNameRsp, PartitionStatusRsp}]_vars

C20_Witness ==
    /\ panel_synced
    /\ event = "poll_frame"
    /\ last_frame.tb = PartitionStatusRsp
    /\ last_frame.b1 = 0
    /\ handled = <<last_frame>>
    /\ partition_by_index = <<>>
    /\ zones_by_index # <<>>

\* C21: a partition's derived state is None exactly when no condition bitmap
\* has been assigned to it (the empty bitmap is a bitmap), and
\* publish_partition_state publishes nothing for such a partition and one
\* state message for any other.
C21_NoStateWithoutBitmap ==
    \A p \in DOMAIN partition_by_index :
        LET flags == partition_by_index[p].condition_flags
        IN  /\ PartitionState(flags) = "None" <=> flags = NoFlags
            /\ event = "publish_state" =>
                 IF flags = NoFlags THEN published = <<>>
                 ELSE /\ Len(published) = 1
                      /\ published[1] = [topic |-> "partition_state", index |-> p,
                                         payload |-> <<PartitionState(flags)>>]
                      /\ PartitionState(flags) # "None"

C21_Witness ==
    /\ event = "publish_state"
    /\ partition_by_index[1].condition_flags = NoFlags
    /\ published = <<>>

\* the rules of the derived state in priority order: a rule matches a bitmap
\* that has every flag of all and, unless any is empty, some flag of any
StateRules ==
    <<[all |-> {}, any |-> {"SirenOn", "SteadySirenOn"}, state |-> "TRIGGERED"],
      [all |-> {"Armed"}, any |-> {"Exit1", "Exit2"}, state |-> "ARMING"],
      [all |-> {"Armed", "Entry"}, any |-> {}, state |-> "PENDING"],
      [all |-> {"Armed", "EntryGuard"}, any |-> {}, state |-> "ARMED_HOME"],
      [all |-> {"Armed"}, any |-> {}, state |-> "ARMED_AWAY"],
      [all |-> {}, any |-> {"ReadyToArm", "ReadyToForceArm"}, state |-> "DISARMED"],
      [all |-> {}, any |-> {}, state |-> "PENDING"]>>

RuleMatches(rule, flags) ==
    /\ rule.all \subseteq flags
    /\ rule.any = {} \/ rule.any \cap flags # {}

FirstMatch(flags) ==
    StateRules[Min({k \in 1..Len(StateRules) : RuleMatches(StateRules[k], flags)})].state

\* C22: for every condition bitmap the derived state is the state of the
\* first rule, in priority order, that the bitmap matches: it depends on the
\* bitmap alone, and it is the state publish_partition_state publishes.
C22_FirstMatchingRule ==
    \A p \in DOMAIN partition_by_index :
        LET flags == partition_by_index[p].condition_flags
        IN  flags # NoFlags =>
              /\ PartitionState(flags) = FirstMatch(flags)
              /\ event = "publish_state" =>
                   published = <<[topic |-> "partition_state", index |-> p,
                                  payload |-> <<FirstMatch(flags)>>]>>

C22_Witness ==
    /\ event = "publish_state"
    /\ partition_by_index[1].condition_flags = {"Armed", "Entry", "EntryGuard", "ReadyToArm"}
    /\ published # <<>>
    /\ published[1].payload = <<"PENDING">>


(***************************************************************************)
(* C27: the checksum _send_direct appends is Fletcher-16 over the length   *)
(* byte, the type byte (ack bit included) and the payload: both sums start *)
(* at zero and are reduced modulo 255, so that the low byte is the sum of  *)
(* the bytes modulo 255 and the high byte the sum of the bytes, each       *)
(* weighted by its distance from the end, modulo 255; the low byte is      *)
(* written first.  The checksum of 01 21 is 0x2322, that of no bytes is 0, *)
(* and an Interface Configuration Request without ack is written as        *)
(* 7E 01 21 22 23.                                                         *)
(***************************************************************************)
RECURSIVE ByteSum(_)
ByteSum(bytes) ==
    IF bytes = <<>> THEN 0 ELSE Head(bytes) + ByteSum(Tail(bytes))

RECURSIVE WeightedSum(_)
WeightedSum(bytes) ==
    IF bytes = <<>> THEN 0
    ELSE Len(bytes) * Head(bytes) + WeightedSum(Tail(bytes))

\* length byte, type byte and payload of the message last written
Checksummed ==
    <<1 + Len(sent.message_data),
      sent.message_type + (IF sent.request_ack THEN 128 ELSE 0)>>
    \o sent.message_data

C27_FletcherChecksum ==
    /\ Fletcher16(<<1, 33>>) = 8994
    /\ Fletcher16(<<>>) = 0
    /\ (event = "write" /\ tx_bytes # <<>>) =>
          /\ tx_bytes = <<126>> \o Stuff(Checksummed
                                         \o <<ByteSum(Checksummed) % 255,
                                              WeightedSum(Checksummed) % 255>>)
          /\ (sent.message_type = InterfaceConfigReq /\ ~sent.request_ack) =>
                tx_bytes = <<126, 1, 33, 34, 35>>

\* a message with the ack bit whose bytes add up to more than 255 is written
C27_Witness ==
    /\ event = "write"
    /\ tx_bytes # <<>>
    /\ sent.request_ack
    /\ ByteSum(Checksummed) > 255


(***************************************************************************)
(* C25: when the bytes _send_direct wrote for a message reach the input    *)
(* buffer unchanged, _read_message returns the type byte, with bit 0x80    *)
(* set exactly when an ACK was requested, followed by the payload, also    *)
(* for payloads holding 0x7D or 0x7E, and leaves the buffer empty.         *)
(***************************************************************************)
C25_RoundTrip ==
    [][(event = "deliver" /\ sent.intact /\ event' = "read") =>
          /\ rx_result'.error = ""
          /\ rx_result'.message =
                <<sent.message_type + (IF sent.request_ack THEN 128 ELSE 0)>>
                \o sent.message_data
          /\ rx_buffer' = <<>>]_vars

\* a message with the ack bit and both special bytes in its payload has
\* been written, delivered unchanged and read back
C25_Witness ==
    /\ event = "read"
    /\ sent.intact
    /\ sent.request_ack
    /\ rx_result.message # NoMessage
    /\ \E i, j \in 1..Len(sent.message_data) :
          sent.message_data[i] = 125 /\ sent.message_data[j] = 126


(***************************************************************************)
(* C24: a read that meets an invalid start byte, an invalid escape         *)
(* sequence, a bad length or a checksum mismatch returns no message and    *)
(* resets the input buffer, so that nothing of the damaged frame is left   *)
(* in it; the controller and the entities are not touched.                 *)
(***************************************************************************)
FramingErrors == {"start", "escape", "length", "checksum"}

C24_FramingErrorsFlush ==
    (event = "read" /\ rx_result.error \in FramingErrors) =>
        /\ rx_result.message = NoMessage
        /\ rx_result.flushed
        /\ rx_buffer = <<>>
        /\ pc = "init"
        /\ zones_by_index = <<>>
        /\ partition_by_index = <<>>
        /\ command_queue = <<>>


(***************************************************************************)
(* C23: a frame handled as a transition is answered with exactly one       *)
(* direct ACK when bit 0x80 of its type byte is set, whatever its type and *)
(* whether or not the panel is synced, and with none when the bit is       *)
(* clear; the ACK is written in the step that handles the frame, before    *)
(* the next read.                                                          *)
(***************************************************************************)
\* the direct ACKs written in the last step
DirectAcks == {i \in 1..Len(wire) : wire[i].tb = ACK /\ wire[i].id = 0}

C23_AckForEveryAckRequest ==
    handled # <<>> =>
        Cardinality(DirectAcks) =
            (IF (handled[Len(handled)].tb \div 128) % 2 = 1 THEN 1 ELSE 0)


(***************************************************************************)
(* C26: bit 0x40 of an inbound type byte is masked off before the frame is *)
(* interpreted, while a command is pending as in the idle loop: a frame    *)
(* is set aside as of unknown type only when its type byte without the     *)
(* bits 0x80 and 0x40 is no catalogued type, and a frame handled as a      *)
(* transition is dispatched on that type.                                  *)
(***************************************************************************)
C26_ReservedBitMasked ==
    /\ event = "unknown" => (last_frame.tb % 64) \notin MessageType
    /\ (event = "poll_frame" /\ (last_frame.tb % 64) \in MessageType) =>
          handled = <<last_frame>>


(***************************************************************************)
(* C28: when the republish interval has elapsed the controller publishes   *)
(* the full state snapshot: one state message for every partition whose    *)
(* state is known and one for every zone in the registry, whether or not   *)
(* the zone changed since it was last published.                           *)
(***************************************************************************)
PublishedFor(topic, index) ==
    {i \in 1..Len(published) :
        published[i].topic = topic /\ published[i].index = index}

C28_FullSnapshotRepublished ==
    event = "republish" =>
        /\ \A p \in DOMAIN partition_by_index :
              PartitionState(partition_by_index[p].condition_flags) # "None" =>
                  Cardinality(PublishedFor("partition_state", p)) = 1
        /\ \A z \in DOMAIN zones_by_index :
              Cardinality(PublishedFor("zone_state", z)) = 1


(***************************************************************************)
(* C29: every Partition in the registry has an index whose bit is set in   *)
(* the partition mask recorded from the System Status response: a          *)
(* Partition Status response whose index falls outside the mask creates    *)
(* no Partition.                                                           *)
(***************************************************************************)
C29_PartitionsWithinMask ==
    \A p \in DOMAIN partition_by_index :
        /\ partition_mask >= 0
        /\ get_nth_bit(partition_mask, p - 1) = 1

(***************************************************************************)
(* C30: every Zone in the registry has an index in 1..number_zones that is *)
(* not in ignored_zones: a Zone Name response that carries an out-of-range *)
(* or an ignored zone index creates no Zone.                               *)
(***************************************************************************)
C30_ZonesInRangeNotIgnored ==
    \A z \in DOMAIN zones_by_index :
        /\ z \in 1..number_zones
        /\ z \notin ignored_zones


(***************************************************************************)
(* C31: recoverable errors never end the run: an inbound frame makes       *)
(* control_loop stop with return code 1 only when it is an Interface       *)
(* Configuration message that lacks a required capability; no other frame  *)
(* (a second Partition Status response for a partition that exists, a      *)
(* Partition Status response for an index above 8) raises out of the       *)
(* dispatch step.                                                          *)
(***************************************************************************)
CapabilityMismatch(f) ==
    /\ f.tb % 64 = InterfaceConfigRsp
    /\ RequiredMessageDisabled(f.transition_flags, f.request_flags)

C31_RecoverableErrorsDoNotTerminate ==
    event = "raised" => CapabilityMismatch(last_frame)


(***************************************************************************)
(* C32: an inbound frame with an unknown type code, or with a length other *)
(* than the catalogued one of its type, is dropped, in the idle loop as    *)
(* while a command is pending: no entity and no controller state changes,  *)
(* the pending command is neither completed nor failed, no retry is        *)
(* consumed and the run goes on.                                           *)
(***************************************************************************)
Malformed(f) ==
    /\ f # NoFrame
    /\ \/ (f.tb % 64) \notin MessageType
       \/ f.len # MessageValidLength[f.tb % 64]

C32_MalformedFramesDropped ==
    [][(pc \in {"await", "poll"} /\ Malformed(last_frame')) =>
          /\ UNCHANGED <<zones_by_index, partition_by_index,
                         zones_by_unique_name, partition_by_unique_name,
                         panel_synced, panel_firmware, panel_id,
                         partition_mask>>
          /\ UNCHANGED <<command_queue, command, retries, status, rc,
                         conn_open>>
          /\ pc = "await" => pc' = "await"]_vars


(***************************************************************************)
(* C33: while a command is pending, a read that returns nothing because of *)
(* a framing error (bad start byte, bad escape, bad length, bad checksum)  *)
(* is treated exactly like a read that timed out: a retry is spent and the *)
(* request is transmitted again.                                           *)
(***************************************************************************)
C33_FramingErrorCountsAsTimeout ==
    [][(pc = "await" /\ event = "read" /\ rx_result.message = NoMessage
        /\ rx_result.error \in FramingErrors \cup {"timeout"}) =>
          /\ event' \in {"timeout", "abandoned"}
          /\ retries' = retries - 1
          /\ command' = command
          /\ Len(wire') = 1
          /\ wire'[1].id = command.id
          /\ wire'[1].tb % 128 = command.req_msg_type
          /\ wire'[1].data = command.req_msg_data
          /\ UNCHANGED <<zones_by_index, partition_by_index, panel_synced>>]_vars

\* the read before the last timeout counted failed on the checksum
C33_Witness ==
    /\ event = "timeout"
    /\ rx_result.error = "checksum"
    /\ retries < InitialRetries


(***************************************************************************)
(* C34: after sync a System Status transition changes neither the cached   *)
(* panel id nor the cached partition mask, creates or alters no Zone and   *)
(* no Partition and enqueues no command.                                   *)
(***************************************************************************)
C34_SystemStatusAfterSyncInert ==
    [][(panel_synced /\ handled' # <<>>
        /\ last_frame'.tb % 64 = SystemStatusRsp) =>
          UNCHANGED <<panel_id, partition_mask, zones_by_index,
                      partition_by_index, zones_by_unique_name,
                      partition_by_unique_name, command_queue>>]_vars


RECURSIVE SpecialBytes(_)
SpecialBytes(bytes) ==
    IF bytes = <<>> THEN 0
    ELSE (IF Head(bytes) \in {125, 126} THEN 1 ELSE 0) + SpecialBytes(Tail(bytes))

C36_FrameWellStuffed ==
    (event = "write" /\ tx_bytes # <<>>) =>
        /\ tx_bytes[1] = 126
        /\ \A k \in 2..Len(tx_bytes) : tx_bytes[k] # 126
        /\ \A k \in 1..Len(tx_bytes) :
              tx_bytes[k] = 125 =>
                  /\ k < Len(tx_bytes)
                  /\ tx_bytes[k + 1] \in {93, 94}
        /\ LET body == Checksummed
                       \o <<Fletcher16(Checksummed) % 256,
                            Fletcher16(Checksummed) \div 256>>
           IN  /\ Len(tx_bytes) = 1 + Len(body) + SpecialBytes(body)
               /\ Cardinality({k \in 1..Len(tx_bytes) : tx_bytes[k] = 125})
                     = SpecialBytes(body)

\* a frame with a stuffed 0x7E and a stuffed 0x7D has been written
C36_Witness ==
    /\ event = "write"
    /\ \E i, j \in 2..(Len(tx_bytes) - 1) :
          /\ tx_bytes[i] = 125 /\ tx_bytes[i + 1] = 94
          /\ tx_bytes[j] = 125 /\ tx_bytes[j + 1] = 93


(***************************************************************************)
(* C37: the checksum a written frame carries is the Fletcher-16 checksum   *)
(* of the frame without start byte and checksum, and a frame that arrives  *)
(* with any single bit flipped is detected: the read returns no message.   *)
(***************************************************************************)
\* the frame written for the message last sent
FrameSent ==
    <<126>> \o Stuff(Checksummed \o <<Fletcher16(Checksummed) % 256,
                                      Fletcher16(Checksummed) \div 256>>)

C37_SingleBitFlipDetected ==
    [][/\ (event = "write" /\ event' = "deliver") => tx_bytes = FrameSent
       /\ (event = "deliver" /\ sent.bit_flipped /\ event' = "read") =>
             rx_result'.message = NoMessage]_vars

\* As the frame is laid out, a flipped bit is detected when it leaves the
\* length byte alone and neither makes nor unmakes an escape byte 0x7D.
C37_BitFlipOutsideLengthDetected ==
    [][/\ (event = "write" /\ event' = "deliver") => tx_bytes = FrameSent
       /\ (event = "deliver" /\ sent.bit_flipped /\ event' = "read"
           /\ rx_buffer[2] = FrameSent[2]
           /\ \A k \in 1..Len(rx_buffer) :
                  rx_buffer[k] = 125 <=> FrameSent[k] = 125) =>
             rx_result'.message = NoMessage]_vars

\* a frame that arrived with one bit of its checksum flipped has been read
C37_Witness ==
    /\ event = "read"
    /\ sent.bit_flipped
    /\ rx_result.error = "checksum"
    /\ rx_result.message = NoMessage


\* C38: panel_synced becomes true the first time the command queue is found
\* empty, whatever became of the sync commands; that step queues Set Clock
\* and publishes the configs of the registries as they are and
\* availability "online"; panel_synced never returns to false
C38_SyncedOnFirstDrain ==
    [][/\ panel_synced => panel_synced'
       /\ (pc = "queue" /\ command_queue = <<>> /\ ~panel_synced /\ pc' = "poll")
            => /\ panel_synced'
               /\ event' = "synced"
               /\ Len(command_queue') = 1
               /\ command_queue'[1].req_msg_type = SetClockCalendar
               /\ status'[command_queue'[1].id] = "queued"
               /\ \E k \in 1..Len(published') :
                    /\ published'[k] = [topic |-> "availability", index |-> 0,
                                        payload |-> <<"online">>]
                    /\ {published'[j].index : j \in {i \in 1..(k - 1) :
                            published'[i].topic = "partition_config"}}
                         = DOMAIN partition_by_index
                    /\ {published'[j].index : j \in {i \in 1..(k - 1) :
                            published'[i].topic = "zone_config"}}
                         = DOMAIN zones_by_index]_vars

\* the panel was marked synced although no sync command brought an answer:
\* every command dequeued so far timed out three times or was refused, and
\* the registries are empty
C38_Witness ==
    /\ event = "synced"
    /\ panel_synced
    /\ panel_firmware = "None"
    /\ DOMAIN zones_by_index = {}
    /\ DOMAIN partition_by_index = {}
    /\ Len(command_queue) = 1
    /\ \E k \in 1..Len(published) : published[k].topic = "availability"


(***************************************************************************)
(* C39: a pending Zone Name, Zone Status or Partition Status request is    *)
(* completed by the first frame read whose ack bit is clear and whose type *)
(* is in its dispatch table, whatever zone or partition index the frame    *)
(* carries: the command is finished, nothing is written to the link and    *)
(* no request of the same type for the requested index is queued again.    *)
(***************************************************************************)
IndexedRequests == {ZoneNameReq, ZoneStatusReq, PartitionStatusReq}

C39_FirstMatchingFrameCompletes ==
    [][(/\ pc = "await"
        /\ command.req_msg_type \in IndexedRequests
        /\ actor' = "controller"
        /\ last_frame' # NoFrame
        /\ ~IsAcked(last_frame')
        /\ PendingTypeByte(last_frame') \in DOMAIN command.response_handler)
          => /\ event' = "completed"
             /\ status'[command.id] = "finished"
             /\ wire' = <<>>
             /\ \A k \in 1..Len(command_queue') :
                  ~ /\ command_queue'[k].req_msg_type = command.req_msg_type
                    /\ command_queue'[k].req_msg_data = command.req_msg_data]_vars


(***************************************************************************)
(* C40: once the finally block of control_loop has run, nothing is written *)
(* to the serial link again.  The step that runs it discards every queued  *)
(* command without transmitting it; afterwards the controller thread takes *)
(* no step, the queue stays empty, no command becomes pending, and an      *)
(* intent call of the sink thread transmits and enqueues nothing.  No step *)
(* of the sink thread writes to the link, before or after the shutdown.    *)
(***************************************************************************)
C40_NothingWrittenAfterShutdown ==
    [][/\ (pc # "done" /\ pc' = "done" /\ ~conn_open')
            => /\ command_queue' = <<>>
               /\ \A k \in 1..Len(command_queue) :
                    /\ status'[command_queue[k].id] = "dropped"
                    /\ \A w \in 1..Len(wire') : wire'[w].id # command_queue[k].id
       /\ (pc = "done" /\ ~conn_open)
            => /\ pc' = "done" /\ ~conn_open' /\ ~queue_created'
               /\ actor' = "sink"
               /\ wire' = <<>>
               /\ tx_bytes' = tx_bytes
               /\ command_queue' = <<>>
               /\ status' = status
       /\ actor' = "sink" => wire' = <<>> /\ tx_bytes' = tx_bytes]_vars

\* the shutdown discarded a queued command, and an intent call made
\* afterwards raised in the sink thread
C40_Witness ==
    /\ pc = "done" /\ ~conn_open /\ ~queue_created
    /\ actor = "sink"
    /\ event = "intent_raised"
    /\ last_intent # NoIntent
    /\ \E i \in DOMAIN status : status[i] = "dropped"
    /\ command_queue = <<>>
    /\ wire = <<>>

====
